---- MODULE Spec2Model ----
(***************************************************************************)
(* NeuroDraft: the document lifecycle.                                     *)
(*   AutoSaveManager  - debounce timer, periodic timer, exit flush         *)
(*   MainWindow       - path -> editor map, open / new / close / rename    *)
(*   UpdateManager    - chapter scan, renumbering, move, backups           *)
(*   EditorWidget     - content, file path, unsaved-changes flag           *)
(* Strings are sequences of one-character strings, so that formatting a    *)
(* chapter number into a file name and parsing it back are real            *)
(* conversions.  One project is open; a path is the file name inside its   *)
(* chapters/ directory.                                                    *)
(***************************************************************************)
EXTENDS Integers, Sequences, FiniteSets, TLC

(***************************************************************************)
(* Bounds of the model.                                                    *)
(***************************************************************************)
\* editors that can be constructed in one run
MaxEditors == 2
\* chapter files of a project
MaxChapters == 3
\* "Chapter N: " prefixes a header rewrite may stack up in one header
MaxPrefixes == 2
\* steps of the clock in one run
MaxClockSteps == 4
\* structural operations (renumber, move, new chapter, rename) in one run
MaxStructuralOps == 3
\* lines below the header of a chapter that carries subsections
MaxSectionLines == 2
\* calls of the setters in one run with an unbounded clock
MaxSettingChanges == 2
\* characters of a name typed into the new chapter dialog
MaxNameLen == 3
\* calls of the project manager in one run
MaxProjectOps == 4

(***************************************************************************)
(* Program constants.                                                      *)
(***************************************************************************)
DEFAULT_INTERVAL == 300
MIN_INTERVAL == 60
MAX_INTERVAL == 3600
TYPING_PAUSE_INTERVAL == 10
MIN_TYPING_PAUSE == 5
MAX_TYPING_PAUSE == 60

(***************************************************************************)
(* Strings.                                                                *)
(***************************************************************************)
Digits == <<"0", "1", "2", "3", "4", "5", "6", "7", "8", "9">>

IsDigit(c) == \E i \in 1..10 : Digits[i] = c

DigitVal(c) == (CHOOSE i \in 1..10 : Digits[i] = c) - 1

IsSpace(c) == c \in {" ", "\t"}

\* U+00A0 NO-BREAK SPACE, one character
NBSP == "NBSP"

\* QChar::isSpace: the separators of Unicode, beyond what \s of a
\* QRegularExpression without UseUnicodePropertiesOption matches
IsQSpace(c) == IsSpace(c) \/ c = NBSP

\* QString::toInt on a run of decimal digits
RECURSIVE ToInt(_)
ToInt(ds) ==
    IF ds = <<>> THEN 0
    ELSE 10 * ToInt(SubSeq(ds, 1, Len(ds) - 1)) + DigitVal(ds[Len(ds)])

\* QString::number
RECURSIVE NumStr(_)
NumStr(n) ==
    IF n < 10 THEN <<Digits[n + 1]>>
    ELSE NumStr(n \div 10) \o <<Digits[(n % 10) + 1]>>

\* QString::arg(n, 2, 10, QChar('0')): at least two digits, zero filled
Pad2(n) == IF n < 10 THEN <<"0">> \o NumStr(n) ELSE NumStr(n)

StartsWith(s, p) == Len(s) >= Len(p) /\ SubSeq(s, 1, Len(p)) = p

EndsWith(s, p) ==
    Len(s) >= Len(p) /\ SubSeq(s, Len(s) - Len(p) + 1, Len(s)) = p

\* QString::trimmed
RECURSIVE TrimLeft(_)
TrimLeft(s) ==
    IF s # <<>> /\ IsQSpace(s[1]) THEN TrimLeft(Tail(s)) ELSE s

RECURSIVE TrimRight(_)
TrimRight(s) ==
    IF s # <<>> /\ IsQSpace(s[Len(s)])
    THEN TrimRight(SubSeq(s, 1, Len(s) - 1)) ELSE s

Trimmed(s) == TrimRight(TrimLeft(s))

\* the longest run of digits of s that starts at position i
RECURSIVE DigitRun(_, _)
DigitRun(s, i) ==
    IF i <= Len(s) /\ IsDigit(s[i]) THEN <<s[i]>> \o DigitRun(s, i + 1)
    ELSE <<>>

sChapter_ == <<"c", "h", "a", "p", "t", "e", "r", "_">>
sChapterSp == <<"C", "h", "a", "p", "t", "e", "r", " ">>
sDotMd == <<".", "m", "d">>
sDotTxt == <<".", "t", "x", "t">>
BACKUP_SUFFIX == <<".neurodraft_backup">>

NoNumber == -1

(***************************************************************************)
(* File names.                                                             *)
(***************************************************************************)
\* position of the first match of  chapter_(\d+)\.  in a file name, or 0
FilenameMatchAt(fileName) ==
    LET hits == {i \in 1..Len(fileName) :
                    /\ StartsWith(SubSeq(fileName, i, Len(fileName)), sChapter_)
                    /\ LET ds == DigitRun(fileName, i + 8)
                       IN /\ ds # <<>>
                          /\ i + 8 + Len(ds) <= Len(fileName)
                          /\ fileName[i + 8 + Len(ds)] = "."}
    IN IF hits = {} THEN 0 ELSE CHOOSE i \in hits : \A j \in hits : i <= j

\* the number a chapter file name embeds, NoNumber if it embeds none
EmbeddedNumber(fileName) ==
    LET i == FilenameMatchAt(fileName)
    IN IF i = 0 THEN NoNumber ELSE ToInt(DigitRun(fileName, i + 8))

\* parseChapterFile: the chapter number of a file, 1 by default
FileChapterNumber(fileName) ==
    IF FilenameMatchAt(fileName) # 0 THEN EmbeddedNumber(fileName) ELSE 1

generateChapterFileName(chapterNumber) ==
    sChapter_ \o Pad2(chapterNumber) \o sDotMd

\* the name filters "*.md" and "*.txt" of the chapter scan
IsChapterFile(fileName) ==
    EndsWith(fileName, sDotMd) \/ EndsWith(fileName, sDotTxt)

\* QFileInfo::baseName: the file name up to its first "."
RECURSIVE BaseName(_)
BaseName(fileName) ==
    IF fileName = <<>> \/ fileName[1] = "." THEN <<>>
    ELSE <<fileName[1]>> \o BaseName(Tail(fileName))

BackupPath(filePath) == filePath \o BACKUP_SUFFIX

(***************************************************************************)
(* Chapter text: a sequence of lines.                                      *)
(***************************************************************************)
\* CHAPTER_REGEX  ^#\s+(.+)$  on one line
IsH1(line) == Len(line) >= 3 /\ line[1] = "#" /\ IsSpace(line[2])

\* captured(1).trimmed() of a first-level header line
H1Text(line) == Trimmed(SubSeq(line, 3, Len(line)))

H1Lines(content) == {i \in 1..Len(content) : IsH1(content[i])}

FirstH1(content) ==
    CHOOSE i \in H1Lines(content) : \A j \in H1Lines(content) : i <= j

\* the number N of a header text "Chapter N" or "Chapter N: ...", NoNumber
\* otherwise
HeaderTextNumber(text) ==
    IF StartsWith(text, sChapterSp)
    THEN LET ds == DigitRun(text, 9)
         IN IF ds # <<>> /\ (8 + Len(ds) = Len(text) \/ text[9 + Len(ds)] = ":")
            THEN ToInt(ds) ELSE NoNumber
    ELSE NoNumber

\* the number in the first first-level header of a chapter text
HeaderNumber(content) ==
    IF H1Lines(content) = {} THEN NoNumber
    ELSE HeaderTextNumber(H1Text(content[FirstH1(content)]))

\* the title a header text carries after all its "Chapter N: " prefixes
RECURSIVE BaseTitle(_)
BaseTitle(text) ==
    IF HeaderTextNumber(text) = NoNumber THEN text
    ELSE BaseTitle(Trimmed(SubSeq(text, 10 + Len(DigitRun(text, 9)), Len(text))))

(***************************************************************************)
(* State.                                                                  *)
(***************************************************************************)
VARIABLES
    fs,                  \* chapters/ directory: file name -> lines
    cache,               \* UpdateManager::m_projectChapters[project]
    ed,                  \* EditorWidget objects: id -> m_filePath, text, m_hasUnsavedChanges
    tabs,                \* the editors in the centre pane, in tab order
    curTab,              \* index of the current tab, 0 if there is none
    openEditors,         \* MainWindow::m_openEditors: path -> editor
    tracked,             \* AutoSaveManager::m_trackedEditors: editor -> EditorInfo
    enabled,             \* AutoSaveManager::m_enabled
    intervalSeconds,     \* AutoSaveManager::m_intervalSeconds
    typingPauseSeconds,  \* AutoSaveManager::m_typingPauseSeconds
    autoTimer,           \* m_autoSaveTimer: seconds to the next timeout, Off if stopped
    pauseTimer,          \* m_typingPauseTimer: seconds to the timeout, Off if stopped
    settings,            \* QSettings group "AutoSave"
    lastOp,              \* the handler that ran last, with what it emitted
    sinceMod,            \* seconds the debounce timer ran since the last modified
                         \* event that was taken
    sinceFirst,          \* the same since the event that started the stopped timer
    armed,               \* the pause the debounce timer was started with by that event
    steps,               \* steps of the clock and structural operations so far
    pm,                  \* ProjectManager: path, name, metadata, hashtags, modified
    disk                 \* project path -> the project directory found there

vars == <<fs, cache, ed, tabs, curTab, openEditors, tracked, enabled,
          intervalSeconds, typingPauseSeconds, autoTimer, pauseTimer, settings,
          lastOp, sinceMod, sinceFirst, armed, steps, pm, disk>>

fsVars == <<fs, cache>>
winVars == <<ed, tabs, curTab, openEditors>>
cfgVars == <<enabled, intervalSeconds, typingPauseSeconds, settings>>
timerVars == <<autoTimer, pauseTimer>>
clockVars == <<sinceMod, sinceFirst, armed>>
pmVars == <<pm, disk>>
\* what the project manager never touches
appVars == <<fs, cache, ed, tabs, curTab, openEditors, tracked, enabled,
             intervalSeconds, typingPauseSeconds, autoTimer, pauseTimer, settings,
             sinceMod, sinceFirst, armed>>

Off == -1
\* what a handler leaves in lastOp when it emits nothing the model follows
Quiet == [op |-> "other"]
EditorIds == 1..MaxEditors
\* the longest time the model measures since a modified event
SinceCap == MAX_TYPING_PAUSE + 1

Min(a, b) == IF a <= b THEN a ELSE b

Range(f) == {f[x] : x \in DOMAIN f}

\* f with key k bound to v (QHash::operator[] assignment)
Put(f, k, v) == [x \in (DOMAIN f) \cup {k} |-> IF x = k THEN v ELSE f[x]]

\* f without key k (QHash::remove)
Drop(f, k) == [x \in (DOMAIN f) \ {k} |-> f[x]]

EmptyMap == [x \in {} |-> 0]

\* all orders in which a loop can visit the elements of a finite set
Orders(S) ==
    {o \in [1..Cardinality(S) -> S] : \A i, j \in DOMAIN o : i # j => o[i] # o[j]}

(***************************************************************************)
(* EditorWidget.                                                           *)
(***************************************************************************)
\* saveToFile(filePath) when the file can be opened for writing
EditorSaved(e, filePath) ==
    [e EXCEPT !.unsaved = FALSE, !.filePath = filePath]

(***************************************************************************)
(* AutoSaveManager.                                                        *)
(***************************************************************************)
\* every tracked editor needs saving
needsSaving_Always(trk, e) == e \in DOMAIN trk

needsSaving(trk, e) == e \in DOMAIN trk /\ trk[e].hasUnsavedChanges

markAsSaved(trk, e) ==
    IF e \in DOMAIN trk THEN [trk EXCEPT ![e].hasUnsavedChanges = FALSE] ELSE trk

\* a saveEditor that marks the editor as saved whether or not the file was written
saveEditor_MarkAlways(st, e, failing) ==
    IF e \notin DOMAIN st.tracked THEN st
    ELSE LET path == st.tracked[e].filePath
         IN IF path \notin failing
            THEN [st EXCEPT !.fs = Put(st.fs, path, st.ed[e].content),
                            !.ed = [st.ed EXCEPT ![e] = EditorSaved(st.ed[e], path)],
                            !.tracked = markAsSaved(st.tracked, e),
                            !.saved = Append(st.saved, e)]
            ELSE [st EXCEPT !.events = Append(st.events,
                                [sig |-> "autoSaveFailed", path |-> path,
                                 reason |-> "Failed to save file"]),
                            !.tracked = markAsSaved(st.tracked, e),
                            !.failed = Append(st.failed, e)]

\* saveEditor on the pass state st; failing = the paths that cannot be written
saveEditor(st, e, failing) ==
    IF e \notin DOMAIN st.tracked THEN st
    ELSE LET path == st.tracked[e].filePath
         IN IF path \notin failing
            THEN [st EXCEPT !.fs = Put(st.fs, path, st.ed[e].content),
                            !.ed = [st.ed EXCEPT ![e] = EditorSaved(st.ed[e], path)],
                            !.tracked = markAsSaved(st.tracked, e),
                            !.saved = Append(st.saved, e)]
            ELSE [st EXCEPT !.events = Append(st.events,
                                [sig |-> "autoSaveFailed", path |-> path,
                                 reason |-> "Failed to save file"]),
                            !.failed = Append(st.failed, e)]

\* a loop that ends at the first editor whose save fails
RECURSIVE SaveLoop_StopAtFailure(_, _, _, _)
SaveLoop_StopAtFailure(st, order, onlyDirty, failing) ==
    IF order = <<>> THEN st
    ELSE LET e == Head(order)
             st1 == IF onlyDirty /\ ~needsSaving(st.tracked, e) THEN st
                    ELSE saveEditor(st, e, failing)
         IN IF Len(st1.failed) > Len(st.failed) THEN st1
            ELSE SaveLoop_StopAtFailure(st1, Tail(order), onlyDirty, failing)

\* the loop of saveAll, performAutoSave and saveAllOnExit over m_trackedEditors,
\* visited in the order `order`
RECURSIVE SaveLoop(_, _, _, _)
SaveLoop(st, order, onlyDirty, failing) ==
    IF order = <<>> THEN st
    ELSE LET e == Head(order)
             st1 == IF onlyDirty /\ ~needsSaving(st.tracked, e) THEN st
                    ELSE saveEditor(st, e, failing)
         IN SaveLoop(st1, Tail(order), onlyDirty, failing)

PassStart ==
    [fs |-> fs, ed |-> ed, tracked |-> tracked, events |-> <<>>,
     saved |-> <<>>, failed |-> <<>>]

\* what a pass emits after its loop
PassEvents(st, statusText) ==
    IF Len(st.saved) > 0
    THEN st.events \o <<[sig |-> "autoSaveCompleted", n |-> Len(st.saved)],
                        [sig |-> "statusChanged", text |-> statusText,
                         n |-> Len(st.saved)]>>
    ELSE st.events

\* the tracked editors whose EditorInfo::hasUnsavedChanges is set
DirtyTracked == {e \in DOMAIN tracked : tracked[e].hasUnsavedChanges}

\* the record a pass leaves in lastOp: the editors it found dirty, the
\* editors it saved and failed to save, in loop order, and what it emitted
PassLog(op, st, events) ==
    [op |-> op, dirty |-> DirtyTracked, saved |-> st.saved, failed |-> st.failed,
     events |-> events]

\* saveAll(): the debounce pass
saveAll(order, failing) ==
    LET st == SaveLoop(PassStart, order, TRUE, failing)
    IN /\ fs' = st.fs
       /\ ed' = st.ed
       /\ tracked' = st.tracked
       /\ lastOp' = PassLog("typingPaused", st,
                            PassEvents(st, "Auto-saved %1 files after typing pause"))

\* the paths a pass over the tracked editors tries to write
PassPaths(onlyDirty) ==
    {tracked[e].filePath : e \in {d \in DOMAIN tracked :
                                     ~onlyDirty \/ tracked[d].hasUnsavedChanges}}

\* slot of m_typingPauseTimer (single shot: the timer is inactive afterwards)
onTypingPaused ==
    /\ pauseTimer # Off
    /\ pauseTimer' = Off
    /\ IF ~enabled
       THEN /\ lastOp' = Quiet
            /\ UNCHANGED <<fs, ed, tracked>>
       ELSE \E order \in Orders(DOMAIN tracked) :
            \E failing \in SUBSET PassPaths(TRUE) :
                saveAll(order, failing)
    /\ UNCHANGED <<cache, tabs, curTab, openEditors, cfgVars, autoTimer, clockVars>>

\* a periodic slot whose timer fires once and stays inactive afterwards
performAutoSave_SingleShot ==
    /\ autoTimer # Off
    /\ autoTimer' = Off
    /\ IF ~enabled
       THEN /\ lastOp' = Quiet
            /\ UNCHANGED <<fs, ed, tracked>>
       ELSE \E order \in Orders(DOMAIN tracked) :
            \E failing \in SUBSET PassPaths(TRUE) :
                LET st == SaveLoop(PassStart, order, TRUE, failing)
                IN /\ fs' = st.fs
                   /\ ed' = st.ed
                   /\ tracked' = st.tracked
                   /\ lastOp' = PassLog("performAutoSave", st,
                                    PassEvents(st, "Auto-saved %1 files (interval)"))
    /\ UNCHANGED <<cache, tabs, curTab, openEditors, cfgVars, pauseTimer, clockVars>>

\* slot of m_autoSaveTimer (recurring: the timer starts its next interval)
performAutoSave ==
    /\ autoTimer # Off
    /\ autoTimer' = intervalSeconds
    /\ IF ~enabled
       THEN /\ lastOp' = Quiet
            /\ UNCHANGED <<fs, ed, tracked>>
       ELSE \E order \in Orders(DOMAIN tracked) :
            \E failing \in SUBSET PassPaths(TRUE) :
                LET st == SaveLoop(PassStart, order, TRUE, failing)
                IN /\ fs' = st.fs
                   /\ ed' = st.ed
                   /\ tracked' = st.tracked
                   /\ lastOp' = PassLog("performAutoSave", st,
                                    PassEvents(st, "Auto-saved %1 files (interval)"))
    /\ UNCHANGED <<cache, tabs, curTab, openEditors, cfgVars, pauseTimer, clockVars>>

\* an exit flush that visits the dirty editors only
saveAllOnExit_DirtyOnly ==
    \E order \in Orders(DOMAIN tracked) :
    \E failing \in SUBSET PassPaths(TRUE) :
        LET st == SaveLoop(PassStart, order, TRUE, failing)
            events == IF Len(st.saved) > 0
                      THEN st.events \o <<[sig |-> "statusChanged",
                                           text |-> "Exit: Saved %1 files",
                                           n |-> Len(st.saved)]>>
                      ELSE st.events
        IN /\ fs' = st.fs
           /\ ed' = st.ed
           /\ tracked' = st.tracked
           /\ lastOp' = PassLog("saveAllOnExit", st, events)
           /\ UNCHANGED <<cache, tabs, curTab, openEditors, cfgVars, timerVars, clockVars>>

\* saveAllOnExit(), called by MainWindow::closeEvent
saveAllOnExit ==
    \E order \in Orders(DOMAIN tracked) :
    \E failing \in SUBSET PassPaths(FALSE) :
        LET st == SaveLoop(PassStart, order, FALSE, failing)
            events == IF Len(st.saved) > 0
                      THEN st.events \o <<[sig |-> "statusChanged",
                                           text |-> "Exit: Saved %1 files",
                                           n |-> Len(st.saved)]>>
                      ELSE st.events
        IN /\ fs' = st.fs
           /\ ed' = st.ed
           /\ tracked' = st.tracked
           /\ lastOp' = PassLog("saveAllOnExit", st, events)
           /\ UNCHANGED <<cache, tabs, curTab, openEditors, cfgVars, timerVars, clockVars>>

\* a slot that starts the debounce timer only when it is stopped
onEditorModified_NoRestart(e) ==
    IF enabled /\ e \in DOMAIN tracked
    THEN /\ tracked' = [tracked EXCEPT ![e].hasUnsavedChanges = TRUE]
         /\ pauseTimer' = IF pauseTimer = Off THEN typingPauseSeconds ELSE pauseTimer
         /\ sinceMod' = 0
         /\ sinceFirst' = IF pauseTimer = Off THEN 0 ELSE sinceFirst
         /\ armed' = typingPauseSeconds
    ELSE UNCHANGED <<tracked, pauseTimer, sinceMod, sinceFirst, armed>>

\* slot of EditorWidget::contentChanged for the registered editor e
onEditorModified(e) ==
    IF enabled /\ e \in DOMAIN tracked
    THEN /\ tracked' = [tracked EXCEPT ![e].hasUnsavedChanges = TRUE]
         /\ pauseTimer' = typingPauseSeconds
         /\ sinceMod' = 0
         /\ sinceFirst' = IF pauseTimer = Off THEN 0 ELSE sinceFirst
         /\ armed' = typingPauseSeconds
    ELSE UNCHANGED <<tracked, pauseTimer, sinceMod, sinceFirst, armed>>

\* saveSettings(): the three values of the manager, as persisted
saveSettings(interval, typingPause, isEnabled) ==
    [interval |-> interval, typingPause |-> typingPause, enabled |-> isEnabled]

\* a variant whose enabling clears the unsaved-changes marks
setEnabled_ClearMarks(b) ==
    /\ enabled' = b
    /\ IF b
       THEN /\ autoTimer' = intervalSeconds
            /\ UNCHANGED pauseTimer
            /\ tracked' = [e \in DOMAIN tracked |->
                              [tracked[e] EXCEPT !.hasUnsavedChanges = FALSE]]
       ELSE /\ autoTimer' = Off
            /\ pauseTimer' = Off
            /\ UNCHANGED tracked
    /\ settings' = saveSettings(intervalSeconds, typingPauseSeconds, b)
    /\ lastOp' = Quiet
    /\ UNCHANGED <<fsVars, winVars, intervalSeconds, typingPauseSeconds, clockVars>>

\* setEnabled(b)
setEnabled(b) ==
    /\ enabled' = b
    /\ IF b
       THEN /\ autoTimer' = intervalSeconds
            /\ UNCHANGED pauseTimer
       ELSE /\ autoTimer' = Off
            /\ pauseTimer' = Off
    /\ settings' = saveSettings(intervalSeconds, typingPauseSeconds, b)
    /\ lastOp' = Quiet
    /\ UNCHANGED <<fsVars, winVars, tracked, intervalSeconds, typingPauseSeconds,
                   clockVars>>

\* a variant that restarts the periodic timer whether enabled or not
setAutoSaveInterval_AlwaysStart(seconds) ==
    /\ IF seconds < MIN_INTERVAL \/ seconds > MAX_INTERVAL
       THEN /\ UNCHANGED <<intervalSeconds, autoTimer, settings>>
            /\ lastOp' = Quiet
       ELSE /\ intervalSeconds' = seconds
            /\ autoTimer' = seconds
            /\ settings' = saveSettings(seconds, typingPauseSeconds, enabled)
            /\ lastOp' = Quiet
    /\ UNCHANGED <<fsVars, winVars, tracked, enabled, typingPauseSeconds, pauseTimer,
                   clockVars>>

\* setAutoSaveInterval(seconds)
setAutoSaveInterval(seconds) ==
    /\ IF seconds < MIN_INTERVAL \/ seconds > MAX_INTERVAL
       THEN /\ UNCHANGED <<intervalSeconds, autoTimer, settings>>
            /\ lastOp' = Quiet
       ELSE /\ intervalSeconds' = seconds
            /\ autoTimer' = IF enabled THEN seconds ELSE autoTimer
            /\ settings' = saveSettings(seconds, typingPauseSeconds, enabled)
            /\ lastOp' = Quiet
    /\ UNCHANGED <<fsVars, winVars, tracked, enabled, typingPauseSeconds, pauseTimer,
                   clockVars>>

\* a variant that takes any number of seconds
setTypingPauseInterval_Unchecked(seconds) ==
    /\ typingPauseSeconds' = seconds
    /\ settings' = saveSettings(intervalSeconds, seconds, enabled)
    /\ lastOp' = Quiet
    /\ UNCHANGED <<fsVars, winVars, tracked, enabled, intervalSeconds, timerVars,
                   clockVars>>

\* setTypingPauseInterval(seconds)
setTypingPauseInterval(seconds) ==
    /\ IF seconds < MIN_TYPING_PAUSE \/ seconds > MAX_TYPING_PAUSE
       THEN /\ UNCHANGED <<typingPauseSeconds, settings>>
            /\ lastOp' = Quiet
       ELSE /\ typingPauseSeconds' = seconds
            /\ settings' = saveSettings(intervalSeconds, seconds, enabled)
            /\ lastOp' = Quiet
    /\ UNCHANGED <<fsVars, winVars, tracked, enabled, intervalSeconds, timerVars,
                   clockVars>>

\* loadSettings(): the interval read from the persisted value v
LoadedInterval(v) ==
    IF v < MIN_INTERVAL \/ v > MAX_INTERVAL THEN DEFAULT_INTERVAL ELSE v

\* loadSettings(): the typing pause read from the persisted value v
LoadedTypingPause(v) ==
    IF v < MIN_TYPING_PAUSE \/ v > MAX_TYPING_PAUSE THEN TYPING_PAUSE_INTERVAL ELSE v

(***************************************************************************)
(* The clock.  A running timer whose time is up has its slot called before *)
(* the clock moves on.                                                     *)
(***************************************************************************)
Running == {t \in {autoTimer, pauseTimer} : t # Off}

NextDeadline == CHOOSE t \in Running : \A u \in Running : t <= u

Advance(d) ==
    /\ autoTimer' = IF autoTimer = Off THEN Off ELSE autoTimer - d
    /\ pauseTimer' = IF pauseTimer = Off THEN Off ELSE pauseTimer - d
    /\ sinceMod' = IF pauseTimer = Off THEN sinceMod ELSE Min(sinceMod + d, SinceCap)
    /\ sinceFirst' = IF pauseTimer = Off THEN sinceFirst
                     ELSE Min(sinceFirst + d, SinceCap)
    /\ lastOp' = Quiet
    /\ UNCHANGED <<fsVars, winVars, tracked, cfgVars, armed>>

\* a few seconds pass
Tick ==
    \E d \in 1..3 :
        /\ steps < MaxClockSteps
        /\ \A t \in Running : d <= t
        /\ steps' = steps + 1
        /\ UNCHANGED pmVars
        /\ Advance(d)

\* time passes until the next timeout is due
TickToDeadline ==
    /\ Running # {}
    /\ NextDeadline > 0
    /\ steps < MaxClockSteps
    /\ steps' = steps + 1
    /\ UNCHANGED pmVars
    /\ Advance(NextDeadline)

(***************************************************************************)
(* MainWindow.                                                             *)
(***************************************************************************)
\* the chapter files of a directory (name filters *.md, *.txt)
ChapterFiles(dir) == {f \in DOMAIN dir : IsChapterFile(f)}

SpecialChars == {"<", ">", ":", "\"", "/", "|", "?", "*"}

ReplaceSpecial(s) == [i \in 1..Len(s) |-> IF s[i] \in SpecialChars THEN "_" ELSE s[i]]

\* s after the run of \s characters it starts with
RECURSIVE SkipSpaces(_)
SkipSpaces(s) ==
    IF s # <<>> /\ IsSpace(s[1]) THEN SkipSpaces(Tail(s)) ELSE s

\* every run of whitespace becomes one "_"
RECURSIVE CollapseSpaces(_)
CollapseSpaces(s) ==
    IF s = <<>> THEN <<>>
    ELSE IF IsSpace(s[1]) THEN <<"_">> \o CollapseSpaces(SkipSpaces(s))
    ELSE <<s[1]>> \o CollapseSpaces(Tail(s))

sUntitled == <<"U", "n", "t", "i", "t", "l", "e", "d">>

createSafeFileName(name) ==
    LET safeName == Trimmed(CollapseSpaces(ReplaceSpecial(name)))
    IN IF safeName = <<>> THEN sUntitled ELSE safeName

\* the text a new chapter starts with
InitialContent(chapterName) ==
    << <<"#", " ">> \o chapterName, <<>>, <<"Begin writing here...">> >>

CurrentEditor == IF curTab = 0 THEN 0 ELSE tabs[curTab]

TabIndexOf(e) == IF \E i \in DOMAIN tabs : tabs[i] = e
                 THEN CHOOSE i \in DOMAIN tabs : tabs[i] = e ELSE 0

FreshEditor == CHOOSE e \in EditorIds : e \notin DOMAIN ed /\ \A d \in EditorIds : d < e => d \in DOMAIN ed

\* AutoSaveManager::registerEditor
registerEditor(trk, e, filePath) ==
    Put(trk, e, [filePath |-> filePath, hasUnsavedChanges |-> FALSE])

\* AutoSaveManager::unregisterEditor
unregisterEditor(trk, e) == IF e \in DOMAIN trk THEN Drop(trk, e) ELSE trk

\* qobject_cast<EditorWidget*>(sender()) in a slot of QObject::destroyed: the
\* signal is emitted by ~QObject, when the object is an EditorWidget no
\* longer, so the cast gives the null pointer (0)
CastOfDestroyedSender(e) == 0

\* AutoSaveManager::onEditorDestroyed, the slot of the destroyed signal of e
onEditorDestroyed(trk, e) ==
    LET editor == CastOfDestroyedSender(e)
    IN IF editor # 0 THEN unregisterEditor(trk, editor) ELSE trk

\* AutoSaveManager::updateFilePath
updateFilePath(trk, e, newPath) ==
    IF e \in DOMAIN trk THEN [trk EXCEPT ![e].filePath = newPath] ELSE trk

\* a variant without the look-up of the path among the open editors
openChapterFile_NoLookup(filePath, readOk) ==
    /\ IF readOk /\ filePath \in DOMAIN fs
       THEN /\ Cardinality(DOMAIN ed) < MaxEditors
            /\ LET e == FreshEditor
               IN /\ ed' = Put(ed, e, [filePath |-> filePath, content |-> fs[filePath],
                                       unsaved |-> FALSE])
                  /\ tabs' = Append(tabs, e)
                  /\ curTab' = Len(tabs) + 1
                  /\ openEditors' = Put(openEditors, filePath, e)
                  /\ tracked' = registerEditor(tracked, e, filePath)
                  /\ lastOp' = Quiet
       ELSE /\ lastOp' = Quiet
            /\ UNCHANGED <<ed, tabs, curTab, openEditors, tracked>>
    /\ UNCHANGED <<fsVars, cfgVars, timerVars, clockVars>>

\* openChapterFile(filePath); readOk = the file can be opened for reading
openChapterFile(filePath, readOk) ==
    /\ IF filePath \in DOMAIN openEditors
       THEN /\ curTab' = IF TabIndexOf(openEditors[filePath]) # 0
                         THEN TabIndexOf(openEditors[filePath]) ELSE curTab
            /\ lastOp' = Quiet
            /\ UNCHANGED <<ed, tabs, openEditors, tracked>>
       ELSE IF readOk /\ filePath \in DOMAIN fs
       THEN /\ Cardinality(DOMAIN ed) < MaxEditors
            /\ LET e == FreshEditor
               IN /\ ed' = Put(ed, e, [filePath |-> filePath, content |-> fs[filePath],
                                       unsaved |-> FALSE])
                  /\ tabs' = Append(tabs, e)
                  /\ curTab' = Len(tabs) + 1
                  /\ openEditors' = Put(openEditors, filePath, e)
                  /\ tracked' = registerEditor(tracked, e, filePath)
                  /\ lastOp' = Quiet
       ELSE /\ lastOp' = Quiet
            /\ UNCHANGED <<ed, tabs, curTab, openEditors, tracked>>
    /\ UNCHANGED <<fsVars, cfgVars, timerVars, clockVars>>

\* the body newChapter and onChapterCreatedFromTree share
CreateChapter(op, chapterName, writeOk) ==
    LET chapterPath == createSafeFileName(chapterName) \o sDotMd
        e == FreshEditor
        text == InitialContent(chapterName)
    IN /\ Cardinality(DOMAIN ed) < MaxEditors
       /\ chapterPath \in DOMAIN fs \/ Cardinality(ChapterFiles(fs)) < MaxChapters
       /\ ed' = Put(ed, e, [filePath |-> chapterPath, content |-> text,
                            unsaved |-> FALSE])
       /\ tabs' = Append(tabs, e)
       /\ curTab' = Len(tabs) + 1
       /\ openEditors' = Put(openEditors, chapterPath, e)
       /\ tracked' = registerEditor(tracked, e, chapterPath)
       /\ fs' = IF writeOk THEN Put(fs, chapterPath, text) ELSE fs
       /\ lastOp' = [op |-> op]
       /\ UNCHANGED <<cache, cfgVars, timerVars, clockVars>>

\* newChapter(): the dialog returned chapterName
newChapter(chapterName, writeOk) ==
    /\ chapterName # <<>>
    /\ CreateChapter("newChapter", chapterName, writeOk)

\* onChapterCreatedFromTree(project, chapterName)
onChapterCreatedFromTree(chapterName, writeOk) ==
    /\ chapterName # <<>>
    /\ CreateChapter("onChapterCreatedFromTree", chapterName, writeOk)

RemoveAt(seq, i) == SubSeq(seq, 1, i - 1) \o SubSeq(seq, i + 1, Len(seq))

\* QTabWidget::removeTab: the current index after the tab at index i is gone
CurrentAfterRemove(i) ==
    IF Len(tabs) = 1 THEN 0
    ELSE IF i < curTab THEN curTab - 1
    ELSE IF i > curTab THEN curTab
    ELSE IF i = Len(tabs) THEN i - 1 ELSE i

\* a close that takes Cancel for Discard
onChapterTabCloseRequested_CancelDiscards(index, answer, writeOk) ==
    LET e == tabs[index]
        prompted == ed[e].unsaved
        saves == prompted /\ answer = "Save" /\ writeOk
    IN /\ index \in DOMAIN tabs
       /\ ~prompted => answer = "None"
       /\ prompted => answer \in {"Save", "Discard", "Cancel"}
       /\ answer # "Save" => writeOk
       /\ IF FALSE
          THEN UNCHANGED <<fs, ed, tabs, curTab, openEditors>>
          ELSE /\ fs' = IF saves THEN Put(fs, ed[e].filePath, ed[e].content) ELSE fs
               /\ ed' = IF saves THEN [ed EXCEPT ![e] = EditorSaved(ed[e], ed[e].filePath)]
                        ELSE ed
               /\ openEditors' = IF ed[e].filePath \in DOMAIN openEditors
                                 THEN Drop(openEditors, ed[e].filePath)
                                 ELSE openEditors
               /\ tabs' = RemoveAt(tabs, index)
               /\ curTab' = CurrentAfterRemove(index)
       /\ lastOp' = IF prompted /\ answer = "Cancel" THEN [op |-> "closeCancelled"] ELSE Quiet
       /\ UNCHANGED <<cache, tracked, cfgVars, timerVars, clockVars>>

\* onChapterTabCloseRequested(index); answer = the button of the prompt
onChapterTabCloseRequested(index, answer, writeOk) ==
    LET e == tabs[index]
        prompted == ed[e].unsaved
        saves == prompted /\ answer = "Save" /\ writeOk
    IN /\ index \in DOMAIN tabs
       /\ ~prompted => answer = "None"
       /\ prompted => answer \in {"Save", "Discard", "Cancel"}
       /\ answer # "Save" => writeOk
       /\ IF prompted /\ answer = "Cancel"
          THEN UNCHANGED <<fs, ed, tabs, curTab, openEditors>>
          ELSE /\ fs' = IF saves THEN Put(fs, ed[e].filePath, ed[e].content) ELSE fs
               /\ ed' = IF saves THEN [ed EXCEPT ![e] = EditorSaved(ed[e], ed[e].filePath)]
                        ELSE ed
               /\ openEditors' = IF ed[e].filePath \in DOMAIN openEditors
                                 THEN Drop(openEditors, ed[e].filePath)
                                 ELSE openEditors
               /\ tabs' = RemoveAt(tabs, index)
               /\ curTab' = CurrentAfterRemove(index)
       /\ lastOp' = IF prompted /\ answer = "Cancel" THEN [op |-> "closeCancelled"] ELSE Quiet
       /\ UNCHANGED <<cache, tracked, cfgVars, timerVars, clockVars>>

\* onChapterTabChanged(index): the user selects another tab
onChapterTabChanged(index) ==
    /\ index \in DOMAIN tabs
    /\ index # curTab
    /\ curTab' = index
    /\ lastOp' = Quiet
    /\ UNCHANGED <<fsVars, ed, tabs, openEditors, tracked, cfgVars, timerVars,
                   clockVars>>

\* saveCurrentChapter()
saveCurrentChapter(writeOk) ==
    /\ IF CurrentEditor # 0 /\ writeOk
       THEN /\ fs' = Put(fs, ed[CurrentEditor].filePath, ed[CurrentEditor].content)
            /\ ed' = [ed EXCEPT ![CurrentEditor] =
                         EditorSaved(ed[CurrentEditor], ed[CurrentEditor].filePath)]
       ELSE UNCHANGED <<fs, ed>>
    /\ lastOp' = Quiet
    /\ UNCHANGED <<cache, tabs, curTab, openEditors, tracked, cfgVars, timerVars,
                   clockVars>>

\* the text of an editor after the user typed t
Edited(content, t) ==
    IF Len(content) >= 2 THEN [content EXCEPT ![Len(content)] = t]
    ELSE Append(content, t)

\* EditorWidget::onTextChanged of the current editor: the user typed t
onTextChanged(t) ==
    LET e == CurrentEditor
    IN /\ e # 0
       /\ Edited(ed[e].content, t) # ed[e].content
       /\ ed' = [ed EXCEPT ![e].content = Edited(ed[e].content, t),
                           ![e].unsaved = TRUE]
       /\ onEditorModified(e)
       /\ lastOp' = [op |-> "modified", taken |-> enabled /\ e \in DOMAIN tracked]
       /\ UNCHANGED <<fsVars, tabs, curTab, openEditors, cfgVars, autoTimer>>

\* MainWindow::closeEvent: the exit flush
closeEvent == saveAllOnExit

\* the editor e is deleted by its owner: its tab goes with it, and its
\* destroyed signal reaches the auto-save manager
editorDestroyed(e) ==
    /\ e \in DOMAIN ed
    /\ ed' = Drop(ed, e)
    /\ tabs' = IF TabIndexOf(e) = 0 THEN tabs ELSE RemoveAt(tabs, TabIndexOf(e))
    /\ curTab' = IF TabIndexOf(e) = 0 THEN curTab ELSE CurrentAfterRemove(TabIndexOf(e))
    /\ tracked' = onEditorDestroyed(tracked, e)
    /\ lastOp' = Quiet
    /\ UNCHANGED <<fsVars, openEditors, cfgVars, timerVars, clockVars>>

(***************************************************************************)
(* ProjectTreeWidget: the chapter items show the chapter files of the      *)
(* directory, each under the base name of its file.                        *)
(***************************************************************************)
\* validateItemName: newName is not empty and no sibling of item shows it
validateItemName(item, newName) ==
    /\ newName # <<>>
    /\ \A sibling \in ChapterFiles(fs) \ {item} : Trimmed(BaseName(sibling)) # newName

Numbered(base, i) == base \o <<" ", "(">> \o NumStr(i) \o <<")">>

\* the loop of suggestAlternativeName from candidate i on: the first i up to
\* 100 whose numbered name is valid, 0 if there is none
RECURSIVE FirstValidNumber(_, _, _)
FirstValidNumber(item, cleanBase, i) ==
    IF i > 100 THEN 0
    ELSE IF validateItemName(item, Numbered(cleanBase, i)) THEN i
    ELSE FirstValidNumber(item, cleanBase, i + 1)

\* QDateTime::currentDateTime().toString("hhmmss"): the readings of the wall
\* clock the model considers
Stamps == {<<"1", "2", "0", "0", "0", "0">>, <<"2", "3", "5", "9", "5", "9">>}

\* ProjectTreeWidget::suggestAlternativeName, called when the wall clock
\* reads stamp
treeSuggestAlternativeName(item, baseName, stamp) ==
    LET cleanBase == IF Trimmed(baseName) = <<>> THEN sUntitled ELSE Trimmed(baseName)
        i == FirstValidNumber(item, cleanBase, 2)
    IN IF i # 0 THEN Numbered(cleanBase, i)
       ELSE cleanBase \o <<"_">> \o stamp

\* onItemChanged: the name the tree settles on for the edited text
SettledName(item, text, stamp) ==
    IF validateItemName(item, Trimmed(text)) THEN Trimmed(text)
    ELSE treeSuggestAlternativeName(item, Trimmed(text), stamp)

\* a variant that leaves the auto-save entry at the old path
updateOpenEditorPath_KeepEntry(oldPath, newPath) ==
    IF oldPath \in DOMAIN openEditors
    THEN LET e == openEditors[oldPath]
         IN /\ openEditors' = Put(Drop(openEditors, oldPath), newPath, e)
            /\ ed' = [ed EXCEPT ![e].filePath = newPath]
            /\ tracked' = tracked
    ELSE UNCHANGED <<openEditors, ed, tracked>>

\* MainWindow::updateOpenEditorPath, as new values of the window state
updateOpenEditorPath(oldPath, newPath) ==
    IF oldPath \in DOMAIN openEditors
    THEN LET e == openEditors[oldPath]
         IN /\ openEditors' = Put(Drop(openEditors, oldPath), newPath, e)
            /\ ed' = [ed EXCEPT ![e].filePath = newPath]
            /\ tracked' = updateFilePath(tracked, e, newPath)
    ELSE UNCHANGED <<openEditors, ed, tracked>>

\* the chapter item of file filePath was edited to text:
\* ProjectTreeWidget::onItemChanged, then MainWindow::onTreeItemRenamed
onTreeItemRenamed(filePath, text, renameOk) ==
    \E stamp \in Stamps :
    LET newName == SettledName(filePath, text, stamp)
        newFilePath == createSafeFileName(newName) \o sDotMd
        emitted == newName # BaseName(filePath)
        renamed == emitted /\ filePath # newFilePath /\ newFilePath \notin DOMAIN fs
                   /\ renameOk
        moved == emitted /\ (filePath = newFilePath \/ renamed)
    IN /\ filePath \in ChapterFiles(fs)
       /\ fs' = IF renamed THEN Put(Drop(fs, filePath), newFilePath, fs[filePath]) ELSE fs
       /\ IF moved THEN updateOpenEditorPath(filePath, newFilePath)
          ELSE UNCHANGED <<openEditors, ed, tracked>>
       /\ lastOp' = Quiet
       /\ UNCHANGED <<cache, tabs, curTab, cfgVars, timerVars, clockVars>>

(***************************************************************************)
(* UpdateManager.                                                          *)
(***************************************************************************)
\* SUBSECTION_REGEX  ^##\s+(.+)$  on one line
IsH2(line) ==
    Len(line) >= 4 /\ line[1] = "#" /\ line[2] = "#" /\ IsSpace(line[3])

H2Text(line) == Trimmed(SubSeq(line, 4, Len(line)))

\* parseChapterFile on the file fileName of directory dir
parseChapterFile(dir, fileName) ==
    [name |-> IF H1Lines(dir[fileName]) # {}
              THEN H1Text(dir[fileName][FirstH1(dir[fileName])])
              ELSE BaseName(fileName),
     fileName |-> fileName,
     chapterNumber |-> FileChapterNumber(fileName)]

\* analyzeProject: the lists the scan can leave in the cache.  std::sort by
\* chapter number leaves the order of chapters with equal numbers open.
analyzeProject(dir) ==
    LET infos == {parseChapterFile(dir, f) : f \in ChapterFiles(dir)}
        kept == {c \in infos : c.name # <<>>}
    IN {o \in Orders(kept) :
           \A i, j \in DOMAIN o : i < j => o[i].chapterNumber <= o[j].chapterNumber}

\* a backup that is created empty
createBackup_Empty(dir, filePath) == Put(dir, BackupPath(filePath), <<>>)

\* createBackup(filePath)
createBackup(dir, filePath) == Put(dir, BackupPath(filePath), dir[filePath])

\* updateChapterFile: every match of CHAPTER_REGEX is replaced by the new header
updateChapterFile(content, info) ==
    [i \in 1..Len(content) |->
        IF IsH1(content[i])
        THEN <<"#", " ">> \o sChapterSp \o NumStr(info.chapterNumber) \o <<":", " ">>
             \o info.name
        ELSE content[i]]

\* QString::toLower on the letters A..Z
UpperCase == <<"A", "B", "C", "D", "E", "F", "G", "H", "I", "J", "K", "L", "M",
               "N", "O", "P", "Q", "R", "S", "T", "U", "V", "W", "X", "Y", "Z">>
LowerCase == <<"a", "b", "c", "d", "e", "f", "g", "h", "i", "j", "k", "l", "m",
               "n", "o", "p", "q", "r", "s", "t", "u", "v", "w", "x", "y", "z">>

ToLower(c) ==
    IF \E i \in 1..26 : UpperCase[i] = c
    THEN LowerCase[CHOOSE i \in 1..26 : UpperCase[i] = c]
    ELSE c

\* the character class [a-z0-9]
IsSlugChar(c) == IsDigit(c) \/ \E i \in 1..26 : LowerCase[i] = c

\* replace(QRegularExpression("[^a-z0-9]+"), "-"): every run becomes one "-"
RECURSIVE ReplaceRuns(_)
ReplaceRuns(s) ==
    IF s = <<>> THEN <<>>
    ELSE IF IsSlugChar(Head(s)) THEN <<Head(s)>> \o ReplaceRuns(Tail(s))
    ELSE IF Len(s) >= 2 /\ ~IsSlugChar(s[2]) THEN ReplaceRuns(Tail(s))
    ELSE <<"-">> \o ReplaceRuns(Tail(s))

\* remove(QRegularExpression("^-+|-+$"))
RECURSIVE StripDashes(_)
StripDashes(s) ==
    IF s # <<>> /\ s[1] = "-" THEN StripDashes(Tail(s))
    ELSE IF s # <<>> /\ s[Len(s)] = "-" THEN StripDashes(SubSeq(s, 1, Len(s) - 1))
    ELSE s

\* cleanTitle of generateSubsectionAnchor
Slug(title) == StripDashes(ReplaceRuns([i \in 1..Len(title) |-> ToLower(title[i])]))

\* generateSubsectionAnchor: "%1-%2-%3"
generateSubsectionAnchor(chapterNumber, subsectionNumber, title) ==
    NumStr(chapterNumber) \o <<"-">> \o NumStr(subsectionNumber) \o <<"-">>
    \o Slug(title)

\* the lines of content that SUBSECTION_REGEX matches, in file order
H2Lines(content) == {i \in 1..Len(content) : IsH2(content[i])}

RECURSIVE SortedSeq(_)
SortedSeq(S) ==
    IF S = {} THEN <<>>
    ELSE LET least == CHOOSE x \in S : \A y \in S : x <= y
         IN <<least>> \o SortedSeq(S \ {least})

\* parseSubsections on the text of a file; lineNumber is 0-based
parseSubsections(content, chapterNumber) ==
    LET at == SortedSeq(H2Lines(content))
    IN [k \in 1..Len(at) |->
          [title |-> H2Text(content[at[k]]),
           chapterNumber |-> chapterNumber,
           subsectionNumber |-> k,
           lineNumber |-> at[k] - 1,
           anchor |-> generateSubsectionAnchor(chapterNumber, k,
                                               H2Text(content[at[k]]))]]

\* the renumbering loop of renumberSubsections
RenumberedSubsections(subsections, chapterNumber) ==
    [i \in 1..Len(subsections) |->
        [subsections[i] EXCEPT
            !.subsectionNumber = i,
            !.anchor = generateSubsectionAnchor(chapterNumber, i, subsections[i].title)]]

\* a variant that numbers a header by its line instead of its rank
SubsectionHeader_ByLine(subsection) ==
    <<"#", "#", " ">> \o NumStr(subsection.chapterNumber) \o <<".">>
    \o NumStr(subsection.lineNumber + 1) \o <<":", " ">> \o subsection.title

\* the header line updateSubsectionsInFile writes for a subsection
SubsectionHeader(subsection) ==
    <<"#", "#", " ">> \o NumStr(subsection.chapterNumber) \o <<".">>
    \o NumStr(subsection.subsectionNumber) \o <<":", " ">> \o subsection.title

\* updateSubsectionsInFile: the k-th matching line is replaced by the header
\* of the k-th subsection, as long as there are subsections left
updateSubsectionsInFile(content, subsections) ==
    [i \in 1..Len(content) |->
        LET k == Cardinality({j \in 1..i : IsH2(content[j])})
        IN IF IsH2(content[i]) /\ k <= Len(subsections)
           THEN SubsectionHeader(subsections[k])
           ELSE content[i]]

\* renumberSubsections + updateSubsectionsInFile: the k-th subsection header
\* line becomes "## N.k: <title>"
renumberSubsectionsText(content, chapterNumber) ==
    updateSubsectionsInFile(content,
        RenumberedSubsections(parseSubsections(content, chapterNumber), chapterNumber))

\* the one file operation of a renumberChapters call that fails, if any:
\* createBackup, QFile::rename, updateChapterFile or updateSubsectionsInFile
\* on the chapter at index `at` of the scanned list
NoFault == [stage |-> "none", at |-> 0]

Faults(scan) ==
    {NoFault} \cup
    [stage : {"backup", "rename", "update", "subsections"}, at : 1..Len(scan)]

\* the backup loop of renumberChapters from index k on
RECURSIVE BackupLoop(_, _)
BackupLoop(st, k) ==
    IF k > Len(st.chapters) THEN st
    ELSE LET filePath == st.chapters[k].fileName
         IN IF st.fault = [stage |-> "backup", at |-> k]
            THEN [st EXCEPT
                    !.ok = FALSE,
                    !.fs = Drop(st.fs, BackupPath(filePath)),
                    !.events = Append(st.events,
                        [sig |-> "updateError", text |-> "Failed to create backup",
                         path |-> filePath])]
            ELSE BackupLoop([st EXCEPT !.fs = createBackup(st.fs, filePath)], k + 1)

\* the loop of renumberChapters from index i (1-based) on
RECURSIVE RenumberLoop(_, _)
RenumberLoop(st, i) ==
    IF i > Len(st.chapters) THEN st
    ELSE LET chapter == st.chapters[i]
         IN IF chapter.chapterNumber = i THEN RenumberLoop(st, i + 1)
            ELSE LET newFileName == generateChapterFileName(i)
                     renamed == chapter.fileName # newFileName
                     moved == IF renamed
                              THEN Put(Drop(st.fs, chapter.fileName), newFileName,
                                       st.fs[chapter.fileName])
                              ELSE st.fs
                     info == [chapter EXCEPT !.chapterNumber = i,
                                             !.fileName = newFileName]
                     opsRenamed == IF renamed
                                   THEN Append(st.ops, [op |-> "rename", chapter |-> i])
                                   ELSE st.ops
                     header == updateChapterFile(moved[newFileName], info)
                     opsHeader == Append(opsRenamed, [op |-> "rewrite", chapter |-> i])
                 IN IF renamed /\ newFileName \in DOMAIN st.fs
                    THEN [st EXCEPT
                            !.ok = FALSE,
                            !.chapters[i].chapterNumber = i,
                            !.events = st.events \o
                               <<[sig |-> "updateError", text |-> "Target file already exists",
                                  path |-> newFileName],
                                 [sig |-> "updateError", text |-> "Failed to rename chapter file",
                                  path |-> chapter.fileName]>>]
                    ELSE IF renamed /\ st.fault = [stage |-> "rename", at |-> i]
                    THEN [st EXCEPT
                            !.ok = FALSE,
                            !.chapters[i].chapterNumber = i,
                            !.events = Append(st.events,
                                [sig |-> "updateError", text |-> "Failed to rename chapter file",
                                 path |-> chapter.fileName])]
                    ELSE IF st.fault = [stage |-> "update", at |-> i]
                    THEN [st EXCEPT
                            !.ok = FALSE,
                            !.fs = moved,
                            !.chapters[i] = info,
                            !.ops = opsRenamed,
                            !.events = Append(st.events,
                                [sig |-> "updateError",
                                 text |-> "Failed to update chapter content",
                                 path |-> newFileName])]
                    ELSE IF st.fault = [stage |-> "subsections", at |-> i]
                    THEN [st EXCEPT
                            !.ok = FALSE,
                            !.fs = Put(moved, newFileName, header),
                            !.chapters[i] = info,
                            !.ops = opsHeader,
                            !.events = st.events \o
                               <<[sig |-> "updateError",
                                  text |-> "Failed to update subsections in file",
                                  path |-> newFileName],
                                 [sig |-> "updateError",
                                  text |-> "Failed to renumber subsections for chapter",
                                  path |-> newFileName]>>]
                    ELSE RenumberLoop(
                              [st EXCEPT
                                 !.fs = Put(moved, newFileName,
                                            renumberSubsectionsText(header, i)),
                                 !.chapters[i] = info,
                                 !.ops = Append(opsHeader,
                                                [op |-> "subsections", chapter |-> i]),
                                 !.renames = Append(st.renames,
                                                <<chapter.fileName, newFileName>>),
                                 !.events = Append(st.events,
                                    [sig |-> "chapterMoved",
                                     from |-> chapter.chapterNumber - 1, to |-> i - 1])],
                              i + 1)

\* renumberChapters after the scan left `scan` in the cache, with the file
\* operation `fault` failing
RenumberWith(scan, fault) ==
    LET start == [fs |-> fs, chapters |-> scan, ok |-> TRUE, events |-> <<>>,
                  renames |-> <<>>, ops |-> <<>>, fault |-> fault]
    IN IF scan = <<>> THEN start
       ELSE LET backed == BackupLoop(start, 1)
                st == IF backed.ok THEN RenumberLoop(backed, 1) ELSE backed
            IN IF st.ok
               THEN [st EXCEPT !.events = Append(st.events, [sig |-> "numberingUpdated"])]
               ELSE st

\* renumberChapters after the scan left `scan` in the cache
RenumberFrom(scan) == RenumberWith(scan, NoFault)

PrefixCount(text) ==
    LET RECURSIVE Count(_)
        Count(t) == IF HeaderTextNumber(t) = NoNumber THEN 0
                    ELSE 1 + Count(Trimmed(SubSeq(t, 10 + Len(DigitRun(t, 9)), Len(t))))
    IN Count(text)

\* the model follows a header only up to MaxPrefixes stacked prefixes
WithinPrefixBound(dir) ==
    \A f \in ChapterFiles(dir) : \A i \in H1Lines(dir[f]) :
        PrefixCount(H1Text(dir[f][i])) <= MaxPrefixes

\* renumberChapters(project) while file operations may fail
renumberChaptersIO ==
    \E scan \in analyzeProject(fs) : \E fault \in Faults(scan) :
        LET st == RenumberWith(scan, fault)
        IN /\ WithinPrefixBound(st.fs)
           /\ fs' = st.fs
           /\ cache' = st.chapters
           /\ lastOp' = [op |-> "renumberChapters", ok |-> st.ok, events |-> st.events,
                         ops |-> st.ops, renames |-> st.renames]
           /\ UNCHANGED <<winVars, tracked, cfgVars, timerVars, clockVars>>

\* renumberChapters(project)
renumberChapters ==
    \E scan \in analyzeProject(fs) :
        LET st == RenumberFrom(scan)
        IN /\ WithinPrefixBound(st.fs)
           /\ fs' = st.fs
           /\ cache' = st.chapters
           /\ lastOp' = [op |-> "renumberChapters", ok |-> st.ok, events |-> st.events]
           /\ UNCHANGED <<winVars, tracked, cfgVars, timerVars, clockVars>>

\* QList::takeAt(from) then insert(to); indices are 0-based
MoveInList(list, from, to) ==
    LET item == list[from + 1]
        rest == RemoveAt(list, from + 1)
    IN SubSeq(rest, 1, to) \o <<item>> \o SubSeq(rest, to + 1, Len(rest))

\* moveChapter(project, fromIndex, toIndex)
moveChapter(fromIndex, toIndex) ==
    IF fromIndex < 0 \/ fromIndex >= Len(cache) \/ toIndex < 0 \/ toIndex >= Len(cache)
    THEN /\ lastOp' = [op |-> "moveChapter", from |-> fromIndex, to |-> toIndex,
                       ok |-> FALSE,
                       events |-> <<[sig |-> "updateError",
                                     text |-> "Invalid chapter indices for move operation"]>>]
         /\ UNCHANGED <<fsVars, winVars, tracked, cfgVars, timerVars, clockVars>>
    ELSE IF fromIndex = toIndex
    THEN /\ lastOp' = [op |-> "moveChapter", from |-> fromIndex, to |-> toIndex,
                       ok |-> TRUE, events |-> <<>>]
         /\ UNCHANGED <<fsVars, winVars, tracked, cfgVars, timerVars, clockVars>>
    ELSE \E scan \in analyzeProject(fs) :
            \* the list reordered by takeAt/insert is cleared by the scan of
            \* renumberChapters before anything reads it
            LET st == RenumberFrom(scan)
            IN /\ MoveInList(cache, fromIndex, toIndex) \in Seq(Range(cache))
               /\ WithinPrefixBound(st.fs)
               /\ fs' = st.fs
               /\ cache' = st.chapters
               /\ lastOp' = [op |-> "moveChapter", from |-> fromIndex, to |-> toIndex,
                             ok |-> st.ok,
                             events |-> st.events \o
                                IF st.ok
                                THEN <<[sig |-> "chapterMoved", from |-> fromIndex,
                                        to |-> toIndex]>>
                                ELSE <<[sig |-> "updateError",
                                        text |-> "Failed to renumber chapters after move"]>>]
               /\ UNCHANGED <<winVars, tracked, cfgVars, timerVars, clockVars>>

\* renumberSubsections(project, chapterNumber), on the chapter list the last
\* scan left in the cache
renumberSubsections(chapterNumber) ==
    LET found == {i \in DOMAIN cache : cache[i].chapterNumber = chapterNumber}
    IN IF found = {}
       THEN /\ lastOp' = [op |-> "renumberSubsections", chapter |-> chapterNumber,
                          ok |-> FALSE, subsections |-> <<>>,
                          events |-> <<[sig |-> "updateError",
                                        text |-> "Chapter not found"]>>]
            /\ UNCHANGED <<fsVars, winVars, tracked, cfgVars, timerVars, clockVars>>
       ELSE LET chapter == cache[CHOOSE i \in found : \A j \in found : i <= j]
            IN IF chapter.fileName \notin DOMAIN fs
               THEN /\ lastOp' = [op |-> "renumberSubsections",
                                  chapter |-> chapterNumber,
                                  ok |-> FALSE, subsections |-> <<>>,
                                  events |-> <<[sig |-> "updateError",
                                     text |-> "Failed to update subsections in file"]>>]
                    /\ UNCHANGED <<fsVars, winVars, tracked, cfgVars, timerVars,
                                   clockVars>>
               ELSE LET subsections ==
                            RenumberedSubsections(
                                parseSubsections(fs[chapter.fileName], chapterNumber),
                                chapterNumber)
                    IN /\ fs' = Put(fs, chapter.fileName,
                                    updateSubsectionsInFile(fs[chapter.fileName],
                                                            subsections))
                       /\ lastOp' = [op |-> "renumberSubsections",
                                     chapter |-> chapterNumber, ok |-> TRUE,
                                     file |-> chapter.fileName,
                                     subsections |-> subsections, events |-> <<>>]
                       /\ UNCHANGED <<cache, winVars, tracked, cfgVars, timerVars,
                                      clockVars>>

(***************************************************************************)
(* ProjectManager.  A project path is a string, "" the empty one; a file   *)
(* of a project directory is there or not, and holds a whole JSON document *)
(* or the beginning of one.                                                *)
(***************************************************************************)
ProjectPaths == {"p", "q"}

SubDirs == {"chapters", "characters", "research", "corkboard", ".hashtags"}

\* wordTargets["project"] of a new project
DefaultWordTarget == 80000

\* QJsonObject()
NoMetadata == [name |-> "", modified |-> "", target |-> 0]

NoFile(empty) == [present |-> FALSE, whole |-> FALSE, doc |-> empty]

NoDirectory ==
    [exists |-> FALSE, dirs |-> {}, project |-> NoFile(NoMetadata),
     index |-> NoFile(<<>>), seeded |-> FALSE]

\* the fields after construction
NoProject ==
    [path |-> "", name |-> "", metadata |-> NoMetadata, hashtags |-> <<>>,
     modified |-> FALSE]

\* QFile::open(WriteOnly) and QFile::write
OpenFails == "open fails"
WriteFails == "write fails"
Written == "written"
WriteOutcomes == {OpenFails, WriteFails, Written}

\* the file after open(WriteOnly) and write(doc): the open truncates it
WriteFile(file, doc, empty, outcome) ==
    CASE outcome = OpenFails -> file
      [] outcome = WriteFails -> [present |-> TRUE, whole |-> FALSE, doc |-> empty]
      [] outcome = Written -> [present |-> TRUE, whole |-> TRUE, doc |-> doc]

\* the UTF-16 order of the characters of a hashtag
CodeOrder == <<"#">> \o UpperCase \o LowerCase

CodeUnit(c) == CHOOSE i \in 1..Len(CodeOrder) : CodeOrder[i] = c

\* QString operator<
RECURSIVE LexLess(_, _)
LexLess(a, b) ==
    IF b = <<>> THEN FALSE
    ELSE IF a = <<>> THEN TRUE
    ELSE IF a[1] = b[1] THEN LexLess(Tail(a), Tail(b))
    ELSE CodeUnit(a[1]) < CodeUnit(b[1])

\* QStringList::sort
RECURSIVE SortTags(_)
SortTags(list) ==
    IF list = <<>> THEN <<>>
    ELSE LET i == CHOOSE i \in 1..Len(list) :
                      \A j \in 1..Len(list) : ~LexLess(list[j], list[i])
         IN <<list[i]>> \o SortTags(RemoveAt(list, i))

\* "#character", "#plot", "#scene", "#research", "#todo"
sTagCharacter == <<"#", "c", "h", "a", "r", "a", "c", "t", "e", "r">>
sTagPlot == <<"#", "p", "l", "o", "t">>
sTagScene == <<"#", "s", "c", "e", "n", "e">>
sTagResearch == <<"#", "r", "e", "s", "e", "a", "r", "c", "h">>
sTagTodo == <<"#", "t", "o", "d", "o">>

\* the list initializeHashtagIndex builds
DefaultHashtags == <<sTagCharacter, sTagPlot, sTagScene, sTagResearch, sTagTodo>>

projectExists(projectPath) == disk[projectPath].project.present

\* createDefaultProjectFile: the metadata of a new project
DefaultMetadata(projectName, now) ==
    [name |-> projectName, modified |-> now, target |-> DefaultWordTarget]

\* the outcome of opening a file for writing in a directory that may be missing
InDirectory(there, outcome) == IF there THEN outcome ELSE OpenFails

\* a variant that does not look for a project file first
createProject_NoExistsCheck(projectPath, projectName, writable, now) ==
    /\ IF projectPath = "" \/ projectName = ""
       THEN /\ UNCHANGED pmVars
            /\ lastOp' = [op |-> "createProject", path |-> projectPath, ok |-> FALSE]
       ELSE LET dir == disk[projectPath]
                outcome == IF writable THEN Written ELSE OpenFails
                metadata == DefaultMetadata(projectName, now)
            IN IF ~dir.exists /\ ~writable
               THEN /\ UNCHANGED pmVars
                    /\ lastOp' = [op |-> "createProject", path |-> projectPath,
                                  ok |-> FALSE]
               ELSE /\ disk' = [disk EXCEPT ![projectPath] =
                          [exists |-> TRUE,
                           dirs |-> IF writable THEN SubDirs ELSE dir.dirs,
                           seeded |-> dir.seeded \/ writable,
                           project |-> WriteFile(dir.project, metadata, NoMetadata,
                                                 outcome),
                           index |-> WriteFile(dir.index, DefaultHashtags, <<>>,
                                               outcome)]]
                    /\ pm' = [pm EXCEPT !.path = projectPath, !.name = projectName,
                                        !.metadata = metadata,
                                        !.hashtags = DefaultHashtags]
                    /\ lastOp' = [op |-> "createProject", path |-> projectPath,
                                  ok |-> TRUE]
    /\ UNCHANGED appVars

\* createProject(projectPath, projectName); writable: directories can be made
\* and files opened for writing under the path
createProject(projectPath, projectName, writable, now) ==
    /\ IF projectPath = "" \/ projectName = ""
       THEN /\ UNCHANGED pmVars
            /\ lastOp' = [op |-> "createProject", path |-> projectPath, ok |-> FALSE]
       ELSE LET dir == disk[projectPath]
                outcome == IF writable THEN Written ELSE OpenFails
                metadata == DefaultMetadata(projectName, now)
            IN IF (~dir.exists /\ ~writable) \/ projectExists(projectPath)
               THEN /\ UNCHANGED pmVars
                    /\ lastOp' = [op |-> "createProject", path |-> projectPath,
                                  ok |-> FALSE]
               ELSE /\ disk' = [disk EXCEPT ![projectPath] =
                          [exists |-> TRUE,
                           dirs |-> IF writable THEN SubDirs ELSE dir.dirs,
                           seeded |-> dir.seeded \/ writable,
                           project |-> WriteFile(dir.project, metadata, NoMetadata,
                                                 outcome),
                           index |-> WriteFile(dir.index, DefaultHashtags, <<>>,
                                               outcome)]]
                    /\ pm' = [pm EXCEPT !.path = projectPath, !.name = projectName,
                                        !.metadata = metadata,
                                        !.hashtags = DefaultHashtags]
                    /\ lastOp' = [op |-> "createProject", path |-> projectPath,
                                  ok |-> TRUE]
    /\ UNCHANGED appVars

\* openProject(projectPath + "/project.json"); readable: the files of the
\* project can be opened for reading
openProject(projectPath, readable) ==
    LET dir == disk[projectPath]
        loaded == dir.project.present /\ readable /\ dir.project.whole
    IN /\ IF loaded
          THEN pm' = [pm EXCEPT !.path = projectPath,
                                !.name = dir.project.doc.name,
                                !.metadata = dir.project.doc,
                                !.hashtags = IF dir.index.present
                                             THEN dir.index.doc ELSE @]
          ELSE UNCHANGED pm
       /\ lastOp' = [op |-> "openProject", path |-> projectPath, ok |-> loaded]
       /\ UNCHANGED <<disk, appVars>>

\* saveProject(): the fields and the directories after it, and its result
SaveResult(now, metaOutcome, indexOutcome) ==
    IF pm.path = ""
    THEN [pm |-> pm, disk |-> disk, ok |-> FALSE]
    ELSE LET dir == disk[pm.path]
             metadata == [pm.metadata EXCEPT !.modified = now]
             meta == InDirectory(dir.exists, metaOutcome)
             success == meta # OpenFails
             idx == InDirectory(".hashtags" \in dir.dirs, indexOutcome)
         IN [pm |-> [pm EXCEPT !.metadata = metadata,
                               !.modified = IF success THEN FALSE ELSE @],
             disk |-> [disk EXCEPT ![pm.path].project =
                           WriteFile(@, metadata, NoMetadata, meta),
                                   ![pm.path].index =
                           IF success THEN WriteFile(@, pm.hashtags, <<>>, idx)
                           ELSE @],
             ok |-> success]

\* saveProject()
saveProject(now, metaOutcome, indexOutcome) ==
    LET result == SaveResult(now, metaOutcome, indexOutcome)
    IN /\ pm' = result.pm
       /\ disk' = result.disk
       /\ lastOp' = [op |-> "saveProject", path |-> pm.path, ok |-> result.ok]
       /\ UNCHANGED appVars

\* closeProject()
closeProject(now, metaOutcome, indexOutcome) ==
    /\ disk' = IF pm.modified THEN SaveResult(now, metaOutcome, indexOutcome).disk
               ELSE disk
    /\ pm' = NoProject
    /\ lastOp' = [op |-> "closeProject", path |-> pm.path, ok |-> TRUE]
    /\ UNCHANGED appVars

\* setProjectWordTarget(target)
setProjectWordTarget(target) ==
    /\ pm' = [pm EXCEPT !.metadata.target = target, !.modified = TRUE]
    /\ lastOp' = [op |-> "setProjectWordTarget", path |-> pm.path, ok |-> TRUE]
    /\ UNCHANGED <<disk, appVars>>

\* addHashtag(hashtag)
addHashtag(hashtag) ==
    /\ IF \E i \in 1..Len(pm.hashtags) : pm.hashtags[i] = hashtag
       THEN UNCHANGED pm
       ELSE pm' = [pm EXCEPT !.hashtags = SortTags(Append(@, hashtag)),
                             !.modified = TRUE]
    /\ lastOp' = [op |-> "addHashtag", path |-> pm.path, ok |-> TRUE]
    /\ UNCHANGED <<disk, appVars>>

\* removeHashtag(hashtag)
removeHashtag(hashtag) ==
    /\ IF \E i \in 1..Len(pm.hashtags) : pm.hashtags[i] = hashtag
       THEN pm' = [pm EXCEPT !.hashtags = SelectSeq(@, LAMBDA t : t # hashtag),
                             !.modified = TRUE]
       ELSE UNCHANGED pm
    /\ lastOp' = [op |-> "removeHashtag", path |-> pm.path, ok |-> TRUE]
    /\ UNCHANGED <<disk, appVars>>

(***************************************************************************)
(* Initial states and inputs.                                              *)
(***************************************************************************)
\* a chapter file in canonical form: "# Chapter n: <title>" and a body line
ChapterText(n, title) ==
    << <<"#", " ">> \o sChapterSp \o NumStr(n) \o <<":", " ">> \o title,
       <<>>, <<"body">> >>

\* a project with chapter_01.md .. chapter_0k.md titled A, B, C
Titles == << <<"A">>, <<"B">>, <<"C">> >>

Project(k) ==
    [f \in {generateChapterFileName(n) : n \in 1..k} |->
        ChapterText(FileChapterNumber(f), Titles[FileChapterNumber(f)])]

\* the project createProject leaves: one chapter, headed "# Chapter 1"
SeedProject ==
    (generateChapterFileName(1) :>
        << <<"#", " ">> \o sChapterSp \o NumStr(1), <<>>, <<"Begin your story here...">> >>)

\* what the user types into an editor
EditTexts == {<<"x">>, <<"y">>}

\* names the user gives to new chapters and to renamed tree items
sN == <<"N">>
sChapter02 == sChapter_ \o <<"0", "2">>
NewNames == {sN}
RenameTexts == {sN}
RenameTextsUM == {sN, sChapter02}

\* the chapter moves the user asks for: first to last, second to first, and
\* a chapter onto itself
MoveChoices == {<<0, MaxChapters - 1>>, <<1, 0>>, <<0, 0>>}

\* seconds given to the setters and found in the persisted settings
IntervalChoices == {MIN_INTERVAL - 1, MIN_INTERVAL, MAX_INTERVAL + 1}
PauseChoices == {MIN_TYPING_PAUSE - 1, MIN_TYPING_PAUSE, TYPING_PAUSE_INTERVAL,
                 MAX_TYPING_PAUSE + 1}

\* subsection titles and the lines a chapter can carry below its header
sSceneOne == <<"S", "c", "e", "n", "e", " ", "o", "n", "e">>
sSceneTwo == <<"S", "c", "e", "n", "e", " ", "t", "w", "o">>
sAandB == <<" ", "A", " ", "&", " ", "B", " ">>
sH2 == <<"#", "#", " ">>
SectionLines ==
    {sH2 \o sSceneOne, sH2 \o sSceneTwo, sH2 \o sAandB,
     sH2 \o <<"1", ".", "1", ":", " ">> \o sSceneOne, <<"body">>}

\* the texts of a chapter numbered n: its header and MaxSectionLines lines
RECURSIVE LineSeqs(_)
LineSeqs(n) ==
    IF n = 0 THEN {<<>>}
    ELSE {Append(ls, l) : ls \in LineSeqs(n - 1), l \in SectionLines}

SectionedTexts(n) ==
    {<< <<"#", " ">> \o sChapterSp \o NumStr(n) \o <<":", " ">> \o Titles[1] >> \o ls :
        ls \in LineSeqs(MaxSectionLines)}

\* the names typed into the new chapter dialog: letters, blanks, a character
\* no file name may hold, and a no-break space
NameChars == {"a", " ", ":", NBSP}

RECURSIVE NamesOfLen(_)
NamesOfLen(n) ==
    IF n = 0 THEN {<<>>}
    ELSE {Append(name, c) : name \in NamesOfLen(n - 1), c \in NameChars}

TypedNames == UNION {NamesOfLen(n) : n \in 1..MaxNameLen}

\* a chapters directory in which the names of `names` are taken, next to B
sB == <<"B">>
TakenNames(k) == {sN} \cup {Numbered(sN, i) : i \in 2..k}
StampedNames == {sN \o <<"_">> \o stamp : stamp \in Stamps}
CrowdedProject(names) ==
    [f \in {n \o sDotMd : n \in names \cup {sB}} |-> << <<"body">> >>]

\* the settings an earlier run can have left behind
PersistedSettings ==
    [interval : {MIN_INTERVAL - 1, DEFAULT_INTERVAL, MAX_INTERVAL},
     typingPause : {TYPING_PAUSE_INTERVAL, MAX_TYPING_PAUSE + 1},
     enabled : BOOLEAN]

Alive == lastOp.op # "saveAllOnExit"

\* the state after construction, with the settings found persisted
InitWith(dir, persisted) ==
    /\ fs = dir
    /\ cache = <<>>
    /\ ed = EmptyMap
    /\ tabs = <<>>
    /\ curTab = 0
    /\ openEditors = EmptyMap
    /\ tracked = EmptyMap
    /\ enabled = persisted.enabled
    /\ intervalSeconds = LoadedInterval(persisted.interval)
    /\ typingPauseSeconds = LoadedTypingPause(persisted.typingPause)
    /\ autoTimer = IF persisted.enabled THEN LoadedInterval(persisted.interval) ELSE Off
    /\ pauseTimer = Off
    /\ settings = persisted
    /\ lastOp = [op |-> "init"]
    /\ sinceMod = Off
    /\ sinceFirst = Off
    /\ armed = 0
    /\ steps = 0
    /\ pm = NoProject
    /\ disk = [path \in ProjectPaths |-> NoDirectory]

DefaultSettings ==
    [interval |-> DEFAULT_INTERVAL, typingPause |-> TYPING_PAUSE_INTERVAL,
     enabled |-> TRUE]

(***************************************************************************)
(* Spec: the window, its editors and the auto-save passes.  Time is not    *)
(* counted: a running timer may time out at any step.  Files can always be *)
(* read, renamed and created; a save of an open editor may fail.           *)
(***************************************************************************)
Init == InitWith(Project(1), DefaultSettings)

OpenChapter ==
    /\ Alive
    /\ \E f \in ChapterFiles(fs) : openChapterFile(f, TRUE)
    /\ UNCHANGED <<steps, pmVars>>

NewChapter ==
    /\ Alive
    /\ \E name \in NewNames : newChapter(name, TRUE)
    /\ UNCHANGED <<steps, pmVars>>

NewChapterFromTree ==
    /\ Alive
    /\ \E name \in NewNames : onChapterCreatedFromTree(name, TRUE)
    /\ UNCHANGED <<steps, pmVars>>

CloseTab ==
    /\ Alive
    /\ \E i \in DOMAIN tabs : \E answer \in {"None", "Save", "Discard", "Cancel"} :
       \E writeOk \in BOOLEAN : onChapterTabCloseRequested(i, answer, writeOk)
    /\ UNCHANGED <<steps, pmVars>>

SelectTab ==
    /\ Alive
    /\ \E i \in DOMAIN tabs : onChapterTabChanged(i)
    /\ UNCHANGED <<steps, pmVars>>

SaveChapter ==
    /\ Alive
    /\ \E writeOk \in BOOLEAN : saveCurrentChapter(writeOk)
    /\ UNCHANGED <<steps, pmVars>>

Type ==
    /\ Alive
    /\ \E t \in {<<"x">>} : onTextChanged(t)
    /\ UNCHANGED <<steps, pmVars>>

TreeRename ==
    /\ Alive
    /\ \E f \in ChapterFiles(fs) : \E text \in RenameTexts :
          onTreeItemRenamed(f, text, TRUE)
    /\ UNCHANGED <<steps, pmVars>>

\* the typing pause elapses
TypingPaused == Alive /\ onTypingPaused /\ UNCHANGED <<steps, pmVars>>

\* the auto-save interval elapses
IntervalElapsed == Alive /\ performAutoSave /\ UNCHANGED <<steps, pmVars>>

Exit == Alive /\ closeEvent /\ UNCHANGED <<steps, pmVars>>

Next ==
    \/ OpenChapter
    \/ NewChapter
    \/ NewChapterFromTree
    \/ CloseTab
    \/ SelectTab
    \/ SaveChapter
    \/ Type
    \/ TreeRename
    \/ TypingPaused
    \/ IntervalElapsed
    \/ Exit

Spec == Init /\ [][Next]_vars

(***************************************************************************)
(* The auto-save passes.                                                   *)
(***************************************************************************)
\* the events of signal sig in a handler's record
EventsOf(events, sig) == {i \in DOMAIN events : events[i].sig = sig}

\* the step is a debounce pass or a periodic pass
TimedPassStep == lastOp'.op \in {"typingPaused", "performAutoSave"}

\* the step is any of the three passes
PassStep == lastOp'.op \in {"typingPaused", "performAutoSave", "saveAllOnExit"}

\* the file at the path of e holds, after the step, the text of an editor the
\* pass saved to that path
WrittenBy(e, saved) ==
    /\ tracked[e].filePath \in DOMAIN fs'
    /\ \E d \in saved : /\ tracked[d].filePath = tracked[e].filePath
                        /\ fs'[tracked[e].filePath] = ed[d].content

\* C2: a debounce or periodic pass tries exactly the registered sessions whose
\* dirty flag is set, each at its current path; every session it saves becomes
\* clean, the others are left alone, and autosave_completed(n) is emitted once
\* with n the number of sessions saved, and only when n > 0.
C2_PassSavesDirty ==
    [][TimedPassStep =>
        LET saved == Range(lastOp'.saved)
            failed == Range(lastOp'.failed)
            done == EventsOf(lastOp'.events, "autoSaveCompleted")
        IN /\ saved \cup failed = DirtyTracked
           /\ saved \cap failed = {}
           /\ Len(lastOp'.saved) = Cardinality(saved)
           /\ \A e \in saved : /\ ~tracked'[e].hasUnsavedChanges
                               /\ ~ed'[e].unsaved
                               /\ tracked'[e].filePath = tracked[e].filePath
                               /\ WrittenBy(e, saved)
           /\ \A e \in DOMAIN tracked \ saved : tracked'[e] = tracked[e] /\ ed'[e] = ed[e]
           /\ DOMAIN tracked' = DOMAIN tracked
           /\ Cardinality(done) = IF saved = {} THEN 0 ELSE 1
           /\ \A i \in done : lastOp'.events[i].n = Cardinality(saved)]_vars

\* two sessions are registered, one of them dirty: the debounce pass saves that
\* one and emits autosave_completed(1)
C2_Witness ==
    /\ lastOp.op = "typingPaused"
    /\ Cardinality(DOMAIN tracked) = 2
    /\ lastOp.dirty = Range(lastOp.saved)
    /\ Len(lastOp.saved) = 1
    /\ \E i \in DOMAIN lastOp.events :
          lastOp.events[i] = [sig |-> "autoSaveCompleted", n |-> 1]
    /\ \A e \in DOMAIN tracked : ~tracked[e].hasUnsavedChanges /\ ~ed[e].unsaved

\* C3: the exit flush tries every registered session whatever its dirty flag;
\* when every save succeeds each session's file is written and one status
\* "Exit: Saved n files" is emitted, n the number of registered sessions.
C3_ExitSavesAll ==
    [][lastOp'.op = "saveAllOnExit" =>
        LET saved == Range(lastOp'.saved)
            failed == Range(lastOp'.failed)
        IN /\ saved \cup failed = DOMAIN tracked
           /\ saved \cap failed = {}
           /\ \A e \in saved : WrittenBy(e, saved)
           /\ (failed = {} /\ saved # {}) =>
                lastOp'.events = <<[sig |-> "statusChanged",
                                    text |-> "Exit: Saved %1 files",
                                    n |-> Cardinality(DOMAIN tracked)]>>]_vars

\* two registered sessions, one dirty, both saved on exit with status
\* "Exit: Saved 2 files"
C3_Witness ==
    /\ lastOp.op = "saveAllOnExit"
    /\ Cardinality(DOMAIN tracked) = 2
    /\ Cardinality(lastOp.dirty) = 1
    /\ Len(lastOp.saved) = 2
    /\ lastOp.events = <<[sig |-> "statusChanged", text |-> "Exit: Saved %1 files",
                          n |-> 2]>>
    /\ \A e \in DOMAIN tracked : fs[tracked[e].filePath] = ed[e].content

\* C4: a session whose save fails during a pass keeps its dirty flag and its
\* text, autosave_failed is emitted with its path, it is not counted in
\* autosave_completed, and the other sessions the pass tries are still saved.
C4_FailedSaveStaysDirty ==
    [][PassStep =>
        LET saved == Range(lastOp'.saved)
            failed == lastOp'.failed
            failures == [i \in DOMAIN failed |->
                            [sig |-> "autoSaveFailed", path |-> tracked[failed[i]].filePath,
                             reason |-> "Failed to save file"]]
            tried == IF lastOp'.op = "saveAllOnExit" THEN DOMAIN tracked
                     ELSE DirtyTracked
        IN /\ \A i \in DOMAIN failed :
                /\ tracked'[failed[i]] = tracked[failed[i]]
                /\ ed'[failed[i]] = ed[failed[i]]
                /\ failed[i] \notin saved
           /\ SubSeq(lastOp'.events, 1, Len(failed)) = failures
           /\ \A i \in EventsOf(lastOp'.events, "autoSaveCompleted") :
                lastOp'.events[i].n = Cardinality(tried) - Len(failed)
           /\ \A e \in tried \ Range(failed) :
                e \in saved /\ ~tracked'[e].hasUnsavedChanges]_vars

\* two dirty sessions: the save of the first the pass visits fails, the save
\* of the second succeeds
C4_Witness ==
    /\ lastOp.op \in {"typingPaused", "performAutoSave"}
    /\ Len(lastOp.failed) = 1
    /\ Len(lastOp.saved) = 1
    /\ lastOp.dirty = Range(lastOp.failed) \cup Range(lastOp.saved)
    /\ lastOp.failed[1] < lastOp.saved[1]
    /\ tracked[lastOp.failed[1]].hasUnsavedChanges
    /\ ~tracked[lastOp.saved[1]].hasUnsavedChanges
    /\ lastOp.events[1] = [sig |-> "autoSaveFailed",
                           path |-> tracked[lastOp.failed[1]].filePath,
                           reason |-> "Failed to save file"]
    /\ lastOp.events[2] = [sig |-> "autoSaveCompleted", n |-> 1]

(***************************************************************************)
(* The session registry.                                                   *)
(***************************************************************************)
\* C5: no two sessions open in the workspace have the same path (the claim
\* asks the same of the sessions registered with auto-save).
C5_OneSessionPerPath ==
    \A a, b \in Range(tabs) : a # b => ed[a].filePath # ed[b].filePath

\* C6: a session whose tab a step closes is, after the step, neither
\* registered with auto-save nor in the path map.
C6_CloseUnregisters ==
    [][\A e \in Range(tabs) \ Range(tabs') :
          e \notin DOMAIN tracked' /\ e \notin Range(openEditors')]_vars

(***************************************************************************)
(* SpecAS: the auto-save controller under a clock that counts seconds.  A  *)
(* timer whose time is up has its slot called before the clock moves on.   *)
(***************************************************************************)
InitAS == InitWith(Project(1), DefaultSettings)

TypeAS == Alive /\ (\E t \in EditTexts : onTextChanged(t)) /\ UNCHANGED <<steps, pmVars>>

Seconds == Alive /\ Tick

ClockToDeadline == Alive /\ TickToDeadline

PauseTimeout == Alive /\ pauseTimer = 0 /\ onTypingPaused /\ UNCHANGED <<steps, pmVars>>

IntervalTimeout == Alive /\ autoTimer = 0 /\ performAutoSave /\ UNCHANGED <<steps, pmVars>>

SetEnabled ==
    /\ Alive
    /\ \E b \in BOOLEAN : b # enabled /\ setEnabled(b)
    /\ UNCHANGED <<steps, pmVars>>

SetInterval ==
    /\ Alive
    /\ \E seconds \in IntervalChoices : setAutoSaveInterval(seconds)
    /\ UNCHANGED <<steps, pmVars>>

SetTypingPause ==
    /\ Alive
    /\ \E seconds \in PauseChoices : setTypingPauseInterval(seconds)
    /\ UNCHANGED <<steps, pmVars>>

NextAS ==
    \/ OpenChapter
    \/ TypeAS
    \/ Seconds
    \/ ClockToDeadline
    \/ PauseTimeout
    \/ IntervalTimeout
    \/ SetEnabled
    \/ SetInterval
    \/ SetTypingPause
    \/ Exit

SpecAS == InitAS /\ [][NextAS]_vars

(***************************************************************************)
(* SpecEN: the auto-save controller constructed from persisted settings,   *)
(* switched on and off, under the clock.                                   *)
(***************************************************************************)
InitEN == \E persisted \in PersistedSettings : InitWith(Project(1), persisted)

SetEnabledEN ==
    /\ Alive
    /\ \E b \in BOOLEAN : setEnabled(b)
    /\ UNCHANGED <<steps, pmVars>>

NextEN ==
    \/ OpenChapter
    \/ TypeAS
    \/ ClockToDeadline
    \/ PauseTimeout
    \/ IntervalTimeout
    \/ SetEnabledEN
    \/ SetInterval
    \/ SetTypingPause
    \/ Exit

SpecEN == InitEN /\ [][NextEN]_vars

(***************************************************************************)
(* SpecUM: the chapters of a project under the update manager, the new     *)
(* chapter dialog and the renames of the project tree.                     *)
(***************************************************************************)
InitUM ==
    \E dir \in {Project(k) : k \in 1..MaxChapters} \cup {SeedProject} :
        InitWith(dir, DefaultSettings)

\* one more structural operation
Structural ==
    /\ steps < MaxStructuralOps
    /\ steps' = steps + 1
    /\ UNCHANGED pmVars

Renumber == Structural /\ renumberChapters

Move == Structural /\ \E m \in MoveChoices : moveChapter(m[1], m[2])

NewChapterUM == Structural /\ \E name \in NewNames : newChapter(name, TRUE)

TreeRenameUM ==
    /\ Structural
    /\ \E f \in ChapterFiles(fs) : \E text \in RenameTextsUM :
          onTreeItemRenamed(f, text, TRUE)

NextUM ==
    \/ Renumber
    \/ Move
    \/ NewChapterUM
    \/ TreeRenameUM

SpecUM == InitUM /\ [][NextUM]_vars

(***************************************************************************)
(* SpecSS: one chapter with subsection headers under the update manager.   *)
(***************************************************************************)
InitSS ==
    \E n \in 1..2 : \E text \in SectionedTexts(n) :
        InitWith(generateChapterFileName(n) :> text, DefaultSettings)

RenumberSS == Structural /\ renumberChapters

RenumberSubsectionsSS ==
    Structural /\ \E n \in 1..2 : renumberSubsections(n)

NextSS ==
    \/ RenumberSS
    \/ RenumberSubsectionsSS

SpecSS == InitSS /\ [][NextSS]_vars

(***************************************************************************)
(* SpecRN: open sessions of a project whose chapters the update manager    *)
(* renumbers.                                                              *)
(***************************************************************************)
\* chapter_01.md and chapter_03.md: chapter 2 was removed
GappedProject ==
    [f \in {generateChapterFileName(1), generateChapterFileName(3)} |->
        ChapterText(FileChapterNumber(f), Titles[FileChapterNumber(f)])]

InitRN ==
    \E dir \in {Project(2), GappedProject} : InitWith(dir, DefaultSettings)

RenumberRN == Alive /\ Structural /\ renumberChapters

NextRN ==
    \/ OpenChapter
    \/ Type
    \/ RenumberRN
    \/ SaveChapter
    \/ TypingPaused
    \/ IntervalElapsed
    \/ Exit

SpecRN == InitRN /\ [][NextRN]_vars

(***************************************************************************)
(* SpecFL: the sessions and the renumbering of SpecRN on a project whose   *)
(* first chapter was removed, so that every chapter moves to the file name *)
(* of the chapter before it.                                               *)
(***************************************************************************)
\* chapter_02.md and chapter_03.md: chapter 1 was removed
ShiftedProject ==
    [f \in {generateChapterFileName(2), generateChapterFileName(3)} |->
        ChapterText(FileChapterNumber(f), Titles[FileChapterNumber(f)])]

InitFL == InitWith(ShiftedProject, DefaultSettings)

SpecFL == InitFL /\ [][NextRN]_vars

(***************************************************************************)
(* SpecLV: the auto-save controller under a clock that never stops.  The   *)
(* event loop delivers every timeout that is due, and time goes on while   *)
(* no timeout is due.                                                      *)
(***************************************************************************)
InitLV ==
    InitWith(Project(1), [DefaultSettings EXCEPT !.interval = MIN_INTERVAL])

\* time passes until the next timeout is due
ClockLV ==
    /\ Running # {}
    /\ NextDeadline > 0
    /\ Advance(NextDeadline)
    /\ UNCHANGED <<steps, pmVars>>

SettingChange ==
    /\ steps < MaxSettingChanges
    /\ steps' = steps + 1
    /\ UNCHANGED pmVars

SetEnabledLV == SettingChange /\ \E b \in BOOLEAN : setEnabled(b)

SetIntervalLV == SettingChange /\ \E seconds \in IntervalChoices : setAutoSaveInterval(seconds)

PauseTimeoutLV == pauseTimer = 0 /\ onTypingPaused /\ UNCHANGED <<steps, pmVars>>

IntervalTimeoutLV == autoTimer = 0 /\ performAutoSave /\ UNCHANGED <<steps, pmVars>>

NextLV ==
    \/ OpenChapter
    \/ TypeAS
    \/ ClockLV
    \/ PauseTimeoutLV
    \/ IntervalTimeoutLV
    \/ SetEnabledLV
    \/ SetIntervalLV

SpecLV ==
    /\ InitLV
    /\ [][NextLV]_vars
    /\ WF_vars(ClockLV)
    /\ WF_vars(PauseTimeoutLV)
    /\ WF_vars(IntervalTimeoutLV)

(***************************************************************************)
(* SpecNM: the project tree over a chapters directory in which the name N  *)
(* and any number of its numbered variants are taken.                      *)
(***************************************************************************)
InitNM ==
    \E k \in 1..100 :
    \E stamped \in IF k = 100 THEN SUBSET StampedNames ELSE {{}} :
        InitWith(CrowdedProject(TakenNames(k) \cup stamped), DefaultSettings)

\* the item B is edited to N
TreeRenameNM == Structural /\ onTreeItemRenamed(sB \o sDotMd, sN, TRUE)

NextNM == TreeRenameNM

SpecNM == InitNM /\ [][NextNM]_vars

(***************************************************************************)
(* SpecFN: chapters created under the names the user types.                *)
(***************************************************************************)
InitFN == InitWith(Project(1), DefaultSettings)

NewChapterFN ==
    /\ Alive
    /\ \E name \in TypedNames : newChapter(name, TRUE)
    /\ UNCHANGED <<steps, pmVars>>

NextFN == NewChapterFN

SpecFN == InitFN /\ [][NextFN]_vars

(***************************************************************************)
(* SpecPM: the project manager over two project paths whose directories    *)
(* may refuse a write or a read.                                           *)
(***************************************************************************)
ProjectNames == {"Novel", "Draft"}
Times == {"t1", "t2"}
sTagAct == <<"#", "a", "c", "t">>
TagChoices == {sTagAct, sTagPlot}
TargetChoices == {DefaultWordTarget, DefaultWordTarget + 1}

InitPM == InitWith(Project(1), DefaultSettings)

ProjectOp ==
    /\ steps < MaxProjectOps
    /\ steps' = steps + 1

CreateProjectPM ==
    /\ ProjectOp
    /\ \E projectPath \in ProjectPaths \cup {""}, projectName \in ProjectNames,
          writable \in BOOLEAN, now \in Times :
           createProject(projectPath, projectName, writable, now)

OpenProjectPM ==
    /\ ProjectOp
    /\ \E projectPath \in ProjectPaths, readable \in BOOLEAN :
           openProject(projectPath, readable)

SaveProjectPM ==
    /\ ProjectOp
    /\ \E now \in Times, metaOutcome \in WriteOutcomes, indexOutcome \in WriteOutcomes :
           saveProject(now, metaOutcome, indexOutcome)

CloseProjectPM ==
    /\ ProjectOp
    /\ \E now \in Times, metaOutcome \in WriteOutcomes, indexOutcome \in WriteOutcomes :
           closeProject(now, metaOutcome, indexOutcome)

SetWordTargetPM == ProjectOp /\ \E target \in TargetChoices : setProjectWordTarget(target)

AddHashtagPM == ProjectOp /\ \E hashtag \in TagChoices : addHashtag(hashtag)

RemoveHashtagPM == ProjectOp /\ \E hashtag \in TagChoices : removeHashtag(hashtag)

NextPM ==
    \/ CreateProjectPM
    \/ OpenProjectPM
    \/ SaveProjectPM
    \/ CloseProjectPM
    \/ SetWordTargetPM
    \/ AddHashtagPM
    \/ RemoveHashtagPM

SpecPM == InitPM /\ [][NextPM]_vars

(***************************************************************************)
(* SpecBK: renumberChapters over chapter files whose numbers have gaps,    *)
(* while a file operation of the call may fail.                            *)
(***************************************************************************)
sNotes == <<"#", " ", "N", "o", "t", "e", "s">>

\* the line a chapter carries below its header
BodyLines == {<<"body">>, sNotes, sH2 \o sSceneOne}

\* the chapter numbers found in the file names of a project
NumberSets ==
    {S \in SUBSET (1..(MaxChapters + 1)) : Cardinality(S) \in 1..2}

\* the projects with chapters numbered by `numbers`, the chapter numbered n
\* headed "# Chapter n: <title>"
NumberedProjects(numbers) ==
    {[f \in {generateChapterFileName(n) : n \in numbers} |->
         << <<"#", " ">> \o sChapterSp \o NumStr(FileChapterNumber(f)) \o <<":", " ">>
                \o Titles[1],
            line[FileChapterNumber(f)] >>] :
     line \in [numbers -> BodyLines]}

InitBK ==
    \E numbers \in NumberSets : \E dir \in NumberedProjects(numbers) :
        InitWith(dir, DefaultSettings)

RenumberBK == Alive /\ Structural /\ renumberChaptersIO

NextBK == RenumberBK

SpecBK == InitBK /\ [][NextBK]_vars

(***************************************************************************)
(* SpecDS: the window of Spec, with editors that their owner may delete.   *)
(* What a handler does with a pointer to a deleted editor is undefined:    *)
(* the specification follows the program up to the first deletion that     *)
(* leaves such a pointer.                                                  *)
(***************************************************************************)
\* no pointer to a deleted editor is kept
Intact ==
    /\ DOMAIN tracked \subseteq DOMAIN ed
    /\ Range(openEditors) \subseteq DOMAIN ed

InitDS == Init

StepDS == Intact /\ Next

EditorDestroyedDS ==
    /\ Alive
    /\ Intact
    /\ \E e \in DOMAIN ed : editorDestroyed(e)
    /\ UNCHANGED <<steps, pmVars>>

NextDS ==
    \/ StepDS
    \/ EditorDestroyedDS

SpecDS == InitDS /\ [][NextDS]_vars

(***************************************************************************)
(* SpecDC: the window of Spec in which the save of the close prompt always *)
(* succeeds, so that a closed editor with unsaved changes is one whose     *)
(* prompt was answered Discard.                                            *)
(***************************************************************************)
InitDC == Init

CloseTabDC ==
    /\ Alive
    /\ \E i \in DOMAIN tabs : \E answer \in {"None", "Save", "Discard", "Cancel"} :
          onChapterTabCloseRequested(i, answer, TRUE)
    /\ UNCHANGED <<steps, pmVars>>

NextDC ==
    \/ OpenChapter
    \/ NewChapter
    \/ NewChapterFromTree
    \/ CloseTabDC
    \/ SelectTab
    \/ SaveChapter
    \/ Type
    \/ TreeRename
    \/ TypingPaused
    \/ IntervalElapsed
    \/ Exit

SpecDC == InitDC /\ [][NextDC]_vars

(***************************************************************************)
(* Numbering.                                                              *)
(***************************************************************************)
\* the chapter numbers of the chapter files of a directory
ChapterNumbers(dir) == {FileChapterNumber(f) : f \in ChapterFiles(dir)}

\* C7: when renumber_chapters has run, the numbers of the K chapter files
\* are exactly 1..K and no two chapter files share a number.
C7_NumbersContiguous ==
    lastOp.op = "renumberChapters" =>
        /\ ChapterNumbers(fs) = 1..Cardinality(ChapterFiles(fs))
        /\ \A f, g \in ChapterFiles(fs) :
              f # g => FileChapterNumber(f) # FileChapterNumber(g)

\* C8: the number embedded in a chapter file name is the number in the
\* file's first-level header.
C8_NameMatchesHeader ==
    \A f \in ChapterFiles(fs) :
        EmbeddedNumber(f) # NoNumber => HeaderNumber(fs[f]) = EmbeddedNumber(f)

\* the title, without "Chapter N:" prefixes, of the chapter numbered k
TitleAt(dir, k) ==
    LET f == generateChapterFileName(k)
    IN IF f \in DOMAIN dir /\ H1Lines(dir[f]) # {}
       THEN BaseTitle(H1Text(dir[f][FirstH1(dir[f])]))
       ELSE <<>>

\* C9: a successful move_chapter(from, to) leaves the chapter that was at
\* position from at position to: the file numbered to + 1 carries the title
\* the file numbered from + 1 carried before.
C9_MovePutsChapterAtTo ==
    [][(lastOp'.op = "moveChapter" /\ lastOp'.ok /\ lastOp'.from # lastOp'.to) =>
          /\ TitleAt(fs, lastOp'.from + 1) # <<>>
          /\ TitleAt(fs', lastOp'.to + 1) = TitleAt(fs, lastOp'.from + 1)]_vars

\* C10: a renumber_chapters that follows a renumber_chapters leaves every
\* file of the directory, backups included, as it found it.
C10_RenumberIdempotent ==
    [][(lastOp.op = "renumberChapters" /\ lastOp'.op = "renumberChapters") =>
          fs' = fs]_vars

(***************************************************************************)
(* The debounce timer.                                                     *)
(***************************************************************************)
\* C1: while auto-save is enabled, every modified event of a registered
\* session restarts the debounce timer at the full typing pause, and the
\* debounce pass runs exactly that pause after the most recent such event,
\* never earlier.
C1_DebounceRestart ==
    [][/\ (lastOp'.op = "modified" /\ lastOp'.taken) =>
            (pauseTimer' = typingPauseSeconds /\ armed' = typingPauseSeconds)
       /\ lastOp'.op = "typingPaused" =>
            (pauseTimer = 0 /\ sinceMod = armed)]_vars

\* a modified event 6 seconds after the one that started the timer, then the
\* pass 10 seconds after it: 16 seconds after the first, not 10
C1_Witness ==
    /\ lastOp.op = "typingPaused"
    /\ Len(lastOp.saved) = 1
    /\ armed = TYPING_PAUSE_INTERVAL
    /\ sinceMod = armed
    /\ sinceFirst = armed + 6

(***************************************************************************)
(* Subsections.                                                            *)
(***************************************************************************)
sAnchor11SceneOne ==
    <<"1", "-", "1", "-", "s", "c", "e", "n", "e", "-", "o", "n", "e">>
sAnchor12SceneTwo ==
    <<"1", "-", "2", "-", "s", "c", "e", "n", "e", "-", "t", "w", "o">>
sH2_11SceneOne == sH2 \o <<"1", ".", "1", ":", " ">> \o sSceneOne
sH2_12SceneTwo == sH2 \o <<"1", ".", "2", ":", " ">> \o sSceneTwo

C20_RewriteRoundTrip ==
    [][(lastOp'.op = "renumberSubsections" /\ lastOp'.ok) =>
        /\ parseChapterFile(fs', lastOp'.file).name
              = parseChapterFile(fs, lastOp'.file).name
        /\ parseSubsections(fs'[lastOp'.file], lastOp'.chapter) = lastOp'.subsections
        /\ (lastOp.op = "renumberSubsections" /\ lastOp.ok
               /\ lastOp.chapter = lastOp'.chapter)
              => fs' = fs
    ]_vars

(***************************************************************************)
(* Renames and the sessions.                                               *)
(***************************************************************************)
\* C12: a chapter file rename made by renumberChapters reaches the sessions
\* before any later save: when the step ends, no entry of the path -> editor
\* map, no editor of a tab and no auto-save entry still names a chapter file
\* the step renamed away, and no later auto-save pass, manual save or exit
\* flush writes (recreates) a file that is no longer there.
C12_RenamePropagated ==
    [][/\ lastOp'.op = "renumberChapters" =>
             \A old \in ChapterFiles(fs) \ DOMAIN fs' :
                /\ old \notin DOMAIN openEditors'
                /\ \A e \in Range(tabs') : ed'[e].filePath # old
                /\ \A e \in DOMAIN tracked' : tracked'[e].filePath # old
       /\ lastOp'.op # "renumberChapters" => DOMAIN fs' \subseteq DOMAIN fs
    ]_vars

\* the editor every key of the path -> editor map leads to has the key as
\* its own path and as the path of its auto-save entry
RegistryAgrees ==
    \A path \in DOMAIN openEditors :
        LET e == openEditors[path]
        IN /\ ed[e].filePath = path
           /\ e \in DOMAIN tracked
           /\ tracked[e].filePath = path

\* C13: in every reachable state every entry (path -> editor) of the map has
\* an editor whose own path and whose auto-save path equal the key; a step
\* that renames the file of an open editor from old to new moves the key, the
\* editor's path and the auto-save path to new together and leaves no entry
\* under old.
C13_RegistryPathsAgree ==
    [][/\ RegistryAgrees
       /\ RegistryAgrees'
       /\ \A old \in DOMAIN fs \ DOMAIN fs' : \A new \in DOMAIN fs' \ DOMAIN fs :
             old \in DOMAIN openEditors =>
                /\ old \notin DOMAIN openEditors'
                /\ new \in DOMAIN openEditors'
                /\ openEditors'[new] = openEditors[old]
                /\ ed'[openEditors[old]].filePath = new
                /\ tracked'[openEditors[old]].filePath = new
    ]_vars

\* the editor opened from chapter_01.md is kept under N.md after the rename
C13_Witness ==
    /\ generateChapterFileName(1) \notin DOMAIN fs
    /\ (sN \o sDotMd) \in DOMAIN openEditors
    /\ ed[openEditors[sN \o sDotMd]].content[1] = ChapterText(1, Titles[1])[1]
    /\ ed[openEditors[sN \o sDotMd]].filePath = sN \o sDotMd
    /\ tracked[openEditors[sN \o sDotMd]].filePath = sN \o sDotMd

\* C14: opening a path that is already a key of the path -> editor map
\* creates no editor and no tab, loads no file (the text and the unsaved flag
\* of every editor stay), registers nothing with the auto-save manager and
\* writes nothing; it only selects the tab of the existing editor.  So the
\* state after opening the path again is the state after opening it once.
C14_OpenExistingIsNoOp ==
    [][/\ \A f \in DOMAIN openEditors :
             openChapterFile(f, TRUE) =>
                /\ UNCHANGED <<ed, tabs, openEditors, tracked, fs>>
                /\ TabIndexOf(openEditors[f]) # 0 => curTab' = TabIndexOf(openEditors[f])
       /\ \A e \in DOMAIN ed' \ DOMAIN ed : ed'[e].filePath \notin DOMAIN openEditors
       /\ \A e \in DOMAIN tracked' \ DOMAIN tracked :
             tracked'[e].filePath \notin DOMAIN openEditors
    ]_vars

\* two tabs, and the first one, with unsaved edits, was selected again by
\* opening its path a second time
C14_Witness ==
    /\ Len(tabs) = 2
    /\ curTab = 1
    /\ ed[tabs[1]].unsaved
    /\ openEditors[ed[tabs[1]].filePath] = tabs[1]
    /\ DOMAIN tracked = {tabs[1], tabs[2]}
    /\ lastOp = Quiet

(***************************************************************************)
(* Enabling and disabling.                                                 *)
(***************************************************************************)
\* disabled: no timer runs; enabled: the periodic timer runs
TimersFollowEnabled ==
    /\ ~enabled => (autoTimer = Off /\ pauseTimer = Off)
    /\ enabled => autoTimer # Off

\* C15: in every reachable state with enabled = FALSE neither the periodic
\* nor the debounce timer runs, and no step taken while disabled is a
\* timer-driven pass that writes a file; in every reachable state with
\* enabled = TRUE the periodic timer runs.  This holds from construction with
\* any persisted settings on and across setAutoSaveInterval calls made while
\* enabled or disabled.
C15_TimersFollowEnabled ==
    [][/\ TimersFollowEnabled
       /\ TimersFollowEnabled'
       /\ (~enabled /\ TimedPassStep) => fs' = fs
    ]_vars

\* disabled after a modification had started the debounce timer, with the
\* interval a setAutoSaveInterval call has set
C15_Witness ==
    /\ ~enabled
    /\ intervalSeconds = MIN_INTERVAL
    /\ \E e \in DOMAIN tracked : tracked[e].hasUnsavedChanges
    /\ autoTimer = Off
    /\ pauseTimer = Off
    /\ Alive

(***************************************************************************)
(* The order of the exit flush.                                            *)
(***************************************************************************)
\* C18: the exit flush saves the registered sessions in registration order:
\* editors are numbered as they are constructed and registered, so the
\* editors the flush saved, and those it failed to save, appear in its loop
\* in increasing number.
C18_ExitInRegistrationOrder ==
    lastOp.op = "saveAllOnExit" =>
        /\ \A i, j \in DOMAIN lastOp.saved :
              i < j => lastOp.saved[i] < lastOp.saved[j]
        /\ \A i, j \in DOMAIN lastOp.failed :
              i < j => lastOp.failed[i] < lastOp.failed[j]

\* C16: enabling auto-save (from disabled, or again while enabled) starts
\* the periodic timer with the full interval, leaves the debounce timer as it
\* was, writes no file, changes no unsaved-changes mark and no editor, and
\* runs no pass, so nothing like autoSaveCompleted is emitted.
C16_EnableOnlyRestarts ==
    [][((~enabled /\ enabled') \/ setEnabled(TRUE)) =>
          /\ autoTimer' = intervalSeconds
          /\ intervalSeconds' = intervalSeconds
          /\ pauseTimer' = pauseTimer
          /\ fs' = fs
          /\ tracked' = tracked
          /\ ed' = ed
          /\ lastOp' = Quiet
    ]_vars

\* enabled again after a modification and a disable, before the clock has
\* moved: the session is still marked, its file is still the old one, and
\* the periodic timer has the full interval ahead
C16_Witness ==
    /\ enabled
    /\ steps = 0
    /\ pauseTimer = Off
    /\ autoTimer = intervalSeconds
    /\ \E e \in DOMAIN tracked :
          /\ tracked[e].hasUnsavedChanges
          /\ ed[e].unsaved
          /\ fs[tracked[e].filePath] # ed[e].content
    /\ Alive

(***************************************************************************)
(* The periodic fallback.                                                  *)
(***************************************************************************)
\* a timed pass has just tried to save editor e and failed
FailedAttempt(e) ==
    /\ lastOp.op \in {"typingPaused", "performAutoSave"}
    /\ e \in Range(lastOp.failed)

\* C17: while auto-save is enabled, a registered session whose
\* unsaved-changes mark is set is eventually saved by a pass, or a pass tries
\* it again and fails: every failed attempt is followed by another attempt,
\* with or without further modified events, so once its file can be written
\* the session is saved.
C17_PeriodicRetry ==
    \A e \in EditorIds :
        (enabled /\ e \in DOMAIN tracked /\ tracked[e].hasUnsavedChanges)
        ~> \/ ~enabled
           \/ (e \in DOMAIN tracked /\ ~tracked[e].hasUnsavedChanges)
           \/ FailedAttempt(e)

\* the debounce pass failed and its timer is inactive; a periodic pass has
\* now saved the session
C17_Witness ==
    /\ lastOp.op = "performAutoSave"
    /\ lastOp.dirty # {}
    /\ Range(lastOp.saved) = lastOp.dirty
    /\ pauseTimer = Off
    /\ steps = 0
    /\ enabled

(***************************************************************************)
(* Name conflicts in the project tree.                                     *)
(***************************************************************************)
\* C19: editing a chapter item to a name another chapter item already shows
\* is rejected: the step renames, creates and removes no file, and the
\* alternative the tree suggests for the name A is "A (2)".
C19_ConflictChangesNothing ==
    [][\A item \in ChapterFiles(fs) : \A text \in RenameTextsUM :
          (/\ onTreeItemRenamed(item, text, TRUE)
           /\ \E sibling \in ChapterFiles(fs) \ {item} :
                 Trimmed(BaseName(sibling)) = Trimmed(text))
          => /\ fs' = fs
             /\ \A stamp \in Stamps :
                   treeSuggestAlternativeName(item, text, stamp)
                      = Trimmed(text) \o <<" ", "(", "2", ")">>
    ]_vars

\* C21: the name the tree suggests for an item is shown by none of the
\* item's siblings (compared trimmed, as validateItemName compares), also
\* when "N (2)" .. "N (100)" are all taken and the name is built from the
\* wall clock.
C21_SuggestionIsFree ==
    \A stamp \in Stamps :
        (sB \o sDotMd) \in ChapterFiles(fs) =>
            validateItemName(sB \o sDotMd,
                             treeSuggestAlternativeName(sB \o sDotMd, sN, stamp))

(***************************************************************************)
(* Safe file names.                                                        *)
(***************************************************************************)
\* C22: the name createSafeFileName gives to the file of a new chapter is a
\* fixed point of createSafeFileName, is not empty, and holds no whitespace
\* and none of the characters < > : " / | ? *.
C22_SafeFileName ==
    [][\A f \in DOMAIN fs' \ DOMAIN fs :
          LET safe == SubSeq(f, 1, Len(f) - Len(sDotMd))
          IN /\ createSafeFileName(safe) = safe
             /\ safe # <<>>
             /\ \A i \in 1..Len(safe) :
                   ~IsQSpace(safe[i]) /\ safe[i] \notin SpecialChars
    ]_vars

(***************************************************************************)
(* The ranges of the two intervals.                                        *)
(***************************************************************************)
IntervalInRange(seconds) == seconds >= MIN_INTERVAL /\ seconds <= MAX_INTERVAL

TypingPauseInRange(seconds) ==
    seconds >= MIN_TYPING_PAUSE /\ seconds <= MAX_TYPING_PAUSE

\* C23: the auto-save interval stays within 60..3600 seconds and the typing
\* pause within 5..60 seconds in every state; a setter called with a value
\* out of range leaves the two values, the two timers and the persisted
\* settings as they were; a persisted value out of range is replaced by its
\* default (300, 10) at construction.
C23_IntervalsInRange ==
    /\ ~IntervalInRange(settings.interval) => intervalSeconds = DEFAULT_INTERVAL
    /\ ~TypingPauseInRange(settings.typingPause) =>
           typingPauseSeconds = TYPING_PAUSE_INTERVAL
    /\ [](IntervalInRange(intervalSeconds) /\ TypingPauseInRange(typingPauseSeconds))
    /\ [][\A seconds \in IntervalChoices \cup PauseChoices :
             \/ (~IntervalInRange(seconds) /\ setAutoSaveInterval(seconds))
             \/ (~TypingPauseInRange(seconds) /\ setTypingPauseInterval(seconds))
             => UNCHANGED <<intervalSeconds, typingPauseSeconds, autoTimer,
                            pauseTimer, settings>>
       ]_vars

\* both persisted values were out of range, the defaults took their place,
\* and the calls made since (no chapter is open) have persisted nothing
C23_Witness ==
    /\ ~IntervalInRange(settings.interval)
    /\ ~TypingPauseInRange(settings.typingPause)
    /\ intervalSeconds = DEFAULT_INTERVAL
    /\ typingPauseSeconds = TYPING_PAUSE_INTERVAL
    /\ tabs = <<>>
    /\ lastOp = Quiet

(***************************************************************************)
(* The project manager.                                                    *)
(***************************************************************************)
\* the file holds the whole document doc
Holds(file, doc) == file.present /\ file.whole /\ file.doc = doc

\* C24: a saveProject that does not write the project reports the failure,
\* leaves project.json as it was and leaves the project marked modified; the
\* metadata and the hashtag index reach the disk together or not at all.
C24_SaveIsAtomic ==
    [][lastOp'.op = "saveProject" /\ pm.path # "" =>
          LET before == disk[pm.path]
              after == disk'[pm.path]
          IN \/ /\ lastOp'.ok
                /\ Holds(after.project, pm'.metadata)
                /\ Holds(after.index, pm.hashtags)
                /\ ~pm'.modified
             \/ /\ ~lastOp'.ok
                /\ after.project = before.project
                /\ after.index = before.index
                /\ pm'.modified = pm.modified
    ]_vars

Sorted(list) == \A i, j \in 1..Len(list) : i < j => LexLess(list[i], list[j])

\* C25: while a project is open the hashtag list has no duplicate and is in
\* lexicographic order; adding a hashtag that is in the list changes neither
\* the list nor the modified mark.
C25_HashtagsSorted ==
    /\ [](pm.path # "" => Sorted(pm.hashtags))
    /\ [][\A hashtag \in TagChoices :
             (\E i \in 1..Len(pm.hashtags) : pm.hashtags[i] = hashtag)
                 /\ addHashtag(hashtag)
             => UNCHANGED pm
       ]_vars

\* C26: createProject on a path that holds a project.json fails and leaves
\* every directory and the fields of the project manager as they were.
C26_CreateOnExistingChangesNothing ==
    [][lastOp'.op = "createProject" /\ lastOp'.path # ""
          /\ projectExists(lastOp'.path)
       => ~lastOp'.ok /\ UNCHANGED <<pm, disk>>
    ]_vars

\* createProject has just been refused on the path of a project while the
\* project of the other path is the current one
C26_Witness ==
    /\ lastOp.op = "createProject"
    /\ ~lastOp.ok
    /\ lastOp.path # ""
    /\ projectExists(lastOp.path)
    /\ pm.path \notin {"", lastOp.path}
    /\ pm.hashtags # DefaultHashtags

(***************************************************************************)
(* Renumbering: failures, order and rewritten lines.                       *)
(***************************************************************************)
\* the chapter file f is where and what it was before the step
Untouched(f) == f \in DOMAIN fs' /\ fs'[f] = fs[f]

\* C27: a renumberChapters that fails emits updateError and leaves either
\* every chapter file under its name and with its content of before the
\* call, or, for every chapter file that was renamed or rewritten, a file
\* "<path>.neurodraft_backup" that holds its content of before the call.
C27_FailureLeavesBackups ==
    [][lastOp'.op = "renumberChapters" /\ ~lastOp'.ok =>
          /\ \E k \in DOMAIN lastOp'.events : lastOp'.events[k].sig = "updateError"
          /\ \/ /\ ChapterFiles(fs') = ChapterFiles(fs)
                /\ \A f \in ChapterFiles(fs) : Untouched(f)
             \/ \A f \in ChapterFiles(fs) :
                   ~Untouched(f) =>
                       /\ BackupPath(f) \in DOMAIN fs'
                       /\ fs'[BackupPath(f)] = fs[f]
    ]_vars

\* a call has failed after it renamed a chapter file
C27_Witness ==
    /\ lastOp.op = "renumberChapters"
    /\ ~lastOp.ok
    /\ \E k \in DOMAIN lastOp.ops : lastOp.ops[k].op = "rename"
    /\ \E f \in DOMAIN fs :
          /\ EndsWith(f, BACKUP_SUFFIX)
          /\ SubSeq(f, 1, Len(f) - Len(BACKUP_SUFFIX)) \notin DOMAIN fs

\* C28: within one renumberChapters every rename of a chapter file comes
\* before every rewrite of a header or of subsection lines.
C28_RenamesBeforeRewrites ==
    [][lastOp'.op = "renumberChapters" =>
          \A i, j \in DOMAIN lastOp'.ops :
              i < j /\ lastOp'.ops[j].op = "rename" => lastOp'.ops[i].op = "rename"
    ]_vars

\* C29: the rewrite of a renumbered chapter changes its first first-level
\* header line and its second-level header lines only; every other line,
\* a further line that starts with "# " included, stays as it was, where
\* it was.
C29_OnlyHeadersRewritten ==
    [][lastOp'.op = "renumberChapters" /\ lastOp'.ok =>
          \A k \in DOMAIN lastOp'.renames :
              LET before == fs[lastOp'.renames[k][1]]
                  after == fs'[lastOp'.renames[k][2]]
              IN /\ Len(after) = Len(before)
                 /\ \A i \in 1..Len(before) :
                       i # FirstH1(before) /\ ~IsH2(before[i]) => after[i] = before[i]
    ]_vars

\* the title of a header text "Chapter M: T"
TitleAfterPrefix(text) ==
    Trimmed(SubSeq(text, 10 + Len(DigitRun(text, 9)), Len(text)))

\* C30: a chapter whose header is "# Chapter M: T" and whose number changes
\* from M to N is headed "# Chapter N: T" after renumberChapters.
C30_HeaderKeepsTitle ==
    [][lastOp'.op = "renumberChapters" /\ lastOp'.ok =>
          \A k \in DOMAIN lastOp'.renames :
              LET before == fs[lastOp'.renames[k][1]]
                  after == fs'[lastOp'.renames[k][2]]
                  text == H1Text(before[FirstH1(before)])
                  N == FileChapterNumber(lastOp'.renames[k][2])
              IN HeaderTextNumber(text) = FileChapterNumber(lastOp'.renames[k][1]) =>
                    after[FirstH1(after)] =
                        <<"#", " ">> \o sChapterSp \o NumStr(N) \o <<":", " ">>
                            \o TitleAfterPrefix(text)
    ]_vars

(***************************************************************************)
(* Modifications while auto-save is disabled.                              *)
(***************************************************************************)
\* C31: every modified event of a registered editor sets the editor's
\* unsaved-changes mark in the auto-save manager, also while auto-save is
\* disabled.
C31_ModifiedAlwaysMarks ==
    [][lastOp'.op = "modified" =>
          \A e \in DOMAIN tracked :
              ed'[e].content # ed[e].content => tracked'[e].hasUnsavedChanges
    ]_vars

(***************************************************************************)
(* Deleted editors.                                                        *)
(***************************************************************************)
\* C32: an editor that is deleted leaves the auto-save manager with its
\* destroyed signal: every editor the manager tracks is alive, so that no
\* pass visits a deleted one.
C32_DestroyedIsUnregistered == DOMAIN tracked \subseteq DOMAIN ed

(***************************************************************************)
(* Discarded edits.                                                        *)
(***************************************************************************)
\* the editors whose tab was closed with the changes discarded
Discarded == {e \in DOMAIN ed : e \notin Range(tabs) /\ ed[e].unsaved}

\* the file filePath holds content in the directory dir
FileHolds(dir, filePath, content) == filePath \in DOMAIN dir /\ dir[filePath] = content

\* C33: after a close with Discard no step writes the discarded edits to the
\* file: a file takes the content of a discarded editor only from an editor
\* in a tab.
C33_DiscardedNotWritten ==
    [][\A e \in Discarded \cap DOMAIN tracked :
          LET filePath == tracked[e].filePath
              content == ed[e].content
          IN /\ ~FileHolds(fs, filePath, content)
             /\ FileHolds(fs', filePath, content)
             => \E f \in Range(tabs') :
                   ed'[f].filePath = filePath /\ ed'[f].content = content
    ]_vars

(***************************************************************************)
(* The exit flush after a renumbering.                                     *)
(***************************************************************************)
\* no session with unsaved changes has the file filePath
HeldUnmodified(filePath) ==
    \A e \in DOMAIN tracked : tracked[e].filePath = filePath => ~ed[e].unsaved

\* C34: the exit flush does not undo what renumberChapters wrote: a chapter
\* file that no modified session holds has after the flush the content it
\* had before it, the renumbered header and subsection lines included.
C34_FlushKeepsRenumbered ==
    [][lastOp'.op = "saveAllOnExit" =>
          \A f \in DOMAIN fs : HeldUnmodified(f) => FileHolds(fs', f, fs[f])
    ]_vars

(***************************************************************************)
(* New chapters and the files that exist.                                  *)
(***************************************************************************)
\* C35: creating a chapter leaves every chapter file that exists with the
\* content it has.
C35_NewChapterKeepsFiles ==
    [][lastOp'.op \in {"newChapter", "onChapterCreatedFromTree"} =>
          \A f \in DOMAIN fs : FileHolds(fs', f, fs[f])
    ]_vars

(***************************************************************************)
(* The two unsaved-changes marks.                                          *)
(***************************************************************************)
\* C36: the unsaved-changes mark the auto-save manager keeps for a tracked
\* editor equals the editor's own hasUnsavedChanges().
C36_MarksAgree ==
    \A e \in DOMAIN tracked \cap DOMAIN ed :
        tracked[e].hasUnsavedChanges = ed[e].unsaved

(***************************************************************************)
(* The chapter list the update manager keeps.                              *)
(***************************************************************************)
\* C37: when moveChapter or renumberSubsections reads the chapter list kept
\* for the project, the list is what a scan of the chapters directory gives.
C37_CacheIsFresh ==
    [][lastOp'.op \in {"moveChapter", "renumberSubsections"} =>
          cache \in analyzeProject(fs)
    ]_vars

(***************************************************************************)
(* A save that fails in the exit flush.                                    *)
(***************************************************************************)
\* the editors of the sequence of editors a pass logs
Logged(editors) == {editors[i] : i \in DOMAIN editors}

\* the pass emitted autoSaveFailed for the file filePath
ReportedFailed(filePath) ==
    \E i \in DOMAIN lastOp.events :
        /\ lastOp.events[i].sig = "autoSaveFailed"
        /\ lastOp.events[i].path = filePath

C39_CancelChangesNothing ==
    [][lastOp'.op = "closeCancelled" =>
          UNCHANGED <<fs, ed, tabs, curTab, openEditors, tracked>>
    ]_vars

\* the close of a modified editor that auto-save tracks as modified was
\* cancelled
C39_Witness ==
    /\ lastOp.op = "closeCancelled"
    /\ \E i \in DOMAIN tabs :
          /\ ed[tabs[i]].unsaved
          /\ tabs[i] \in DOMAIN tracked
          /\ tracked[tabs[i]].hasUnsavedChanges
          /\ ed[tabs[i]].filePath \in DOMAIN openEditors

====
